---- MODULE Spec2Model ----
(***************************************************************************)
(* Mining-share ecash issuance: the mint's quote state machine and issuer  *)
(* (single and batch) and the wallet's issuance operations of              *)
(* crates/cdk/src/wallet.                                                   *)
(*                                                                         *)
(* The mint's handlers (issue, batch issue, quote creation) are not part   *)
(* of the sources at hand; they are modelled from spec.md sections 4.4,    *)
(* 4.6 and 4.7.  The wallet operations are modelled from the Rust code,    *)
(* each split into steps at the awaits where other operations can be seen  *)
(* to interleave: after a counter read or increment, and around each       *)
(* request to the mint.                                                    *)
(***************************************************************************)
EXTENDS Integers, Sequences, FiniteSets, TLC

\* ------------------------------------------------------------------ bounds
\* Largest quote amount drawn.
MaxAmount == 3
\* Number of wallet operations started in one behaviour.
MaxOps == 3

\* ------------------------------------------------------------- vocabulary
QuoteIds == {"q1", "q2"}
Clients == {"c1", "c2"}
Tasks == {"t1", "t2"}
Callers == Clients \cup Tasks

SecretKeys == {"sk1", "sk2"}
NoKey == "none"
\* The public key of a secret key (SecretKey::public_key).
PubKey(sk) == IF sk = "sk1" THEN "P1" ELSE "P2"

KeysetIds == {"ks1", "ks2"}
NoKeyset == "none"

\* crates/cashu/src/nuts/nutXX.rs: enum QuoteState; "Absent" stands for a
\* quote id with no record.
QuoteState == {"Unpaid", "Paid", "Pending", "Issued"}

\* The amounts of a keyset's table: powers of two (spec.md 4.2).
RECURSIVE Pow2(_)
Pow2(n) == IF n = 0 THEN 1 ELSE 2 * Pow2(n - 1)
KeysetAmounts == {Pow2(n) : n \in 0..8}

\* Amount::split: the powers of two of an amount, largest first.
RECURSIVE SplitFrom(_, _)
SplitFrom(a, bit) ==
    IF bit < 0 THEN <<>>
    ELSE IF a >= Pow2(bit) THEN <<Pow2(bit)>> \o SplitFrom(a - Pow2(bit), bit - 1)
    ELSE SplitFrom(a, bit - 1)
Split(a) == SplitFrom(a, 8)

RECURSIVE SumSeq(_)
SumSeq(s) ==
    IF s = <<>> THEN 0
    ELSE IF Len(s) = 1 THEN s[1]
    ELSE LET half == Len(s) \div 2
         IN SumSeq(SubSeq(s, 1, half)) + SumSeq(SubSeq(s, half + 1, Len(s)))

Range(s) == {s[i] : i \in DOMAIN s}

\* A list of blinded messages: one per amount, all of keyset ks, the i-th
\* derived from counter value start + i - 1 (the counter stands for the secret).
Outputs(amounts, ks, start) ==
    [i \in DOMAIN amounts |->
        [amount |-> amounts[i], keyset_id |-> ks, secret |-> start + i - 1]]

\* Mutant: only the first output's amount is taken.
total_amount_First(outputs) == IF outputs = <<>> THEN 0 ELSE outputs[1].amount

\* Mutant: the outputs are counted, their amounts not added.
total_amount_Count(outputs) == Len(outputs)

\* MintRequest::total_amount / MintMiningShareRequest::total_amount.
total_amount(outputs) == SumSeq([i \in DOMAIN outputs |-> outputs[i].amount])

\* NUT-20: a signature binds a signer to the quote id of the request.
NoSig == [signer |-> "none", quote |-> "none"]
Sign(sk, quote) == [signer |-> sk, quote |-> quote]
Verify(sig, pubkey, quote) ==
    /\ sig.signer \in SecretKeys
    /\ PubKey(sig.signer) = pubkey
    /\ sig.quote = quote

VARIABLES
    mq,          \* mint: quote id -> quote record
    mcall,       \* mint: caller -> the issue/batch call it has at the mint
    okCount,     \* history: quote id -> number of issue calls that returned Ok
    issuedCount, \* history: quote id -> number of transitions into Issued
    wq,          \* wallet store: quote id -> local quote record
    wsecrets,    \* wallet store: quote id -> stored PreMintSecrets
    counter,     \* wallet store: keyset id -> counter, NoCounter before the first increment
    wproofs,     \* wallet store: the proofs
    task,        \* wallet: task -> the operation it runs and its local variables
    nops,        \* number of wallet operations started
    incs,        \* history: the range each increment_keyset_counter call gave its caller
    derivs,      \* history: the counter range of each secret derivation
    index,       \* mint: locking pubkey -> the ids of the quotes locked to it
    lookupResp,  \* the last lookup request served and its response
    wkeysets,    \* wallet store: the KeySetInfo records of the mint
    active,      \* the result of the last active-keyset selection
    mactive,     \* mint: the id of the active keyset of the registry
    transactions \* wallet store: the Transaction records, in the order added

mvars == <<mq, mcall, okCount, issuedCount, index, lookupResp>>
kvars == <<wkeysets, active, mactive>>
wvars == <<wq, wsecrets, counter, wproofs, task, nops, incs, derivs, kvars,
           transactions>>
vars == <<mq, mcall, okCount, issuedCount, wq, wsecrets, counter, wproofs, task,
          nops, incs, derivs, index, lookupResp, wkeysets, active, mactive,
          transactions>>

\* ------------------------------------------------------------ mint: quotes
AbsentQuote ==
    [state |-> "Absent", method |-> "none", amount |-> 0, amount_paid |-> 0,
     amount_issued |-> 0, pubkey |-> NoKey, keyset_id |-> NoKeyset,
     expiry |-> 0]

IdleCall ==
    [pc |-> "idle", kind |-> "none", quotes |-> <<>>, outputs |-> <<>>,
     sigPresent |-> FALSE, sigs |-> <<>>, seen |-> "none", result |-> "none",
     signatures |-> <<>>]

\* The pubkeys quotes are locked to.
LockKeys == {PubKey(sk) : sk \in SecretKeys}

\* No lookup served yet.
NoLookup ==
    [pubkeys |-> <<>>, state_filter |-> [kind |-> "none", state |-> "none"],
     quotes |-> <<>>]

\* The mint's registry: one keyset is active, ks1 until the mint rotates.
MintActiveKeyset == mactive

\* ------------------------------------------------------ wallet: the store
\* Hash::hash(quote_id.as_bytes()).to_string(): the id create_premint_secrets
\* stores its quote under.
HashOf(q) == IF q = "q1" THEN "h1" ELSE "h2"
\* The id of a quote whose header hash is all zeros; every other wallet id
\* stands for a nonzero hash or a quote id of the mint.
ZeroHash == "h0"
WalletIds == QuoteIds \cup {HashOf(q) : q \in QuoteIds} \cup {ZeroHash}

NoQuote ==
    [state |-> "Absent", method |-> "none", amount |-> 0, amount_paid |-> 0,
     amount_issued |-> 0, secret_key |-> NoKey, expiry |-> 0, unit |-> "none"]

NoPremint == [keyset_id |-> NoKeyset, count |-> 0, amounts |-> <<>>]

\* get_keyset_counter returns None until the first increment.
NoCounter == -1

IdleTask(result) ==
    [pc |-> "idle", op |-> "none", quote |-> "none", key |-> NoKey, amount |-> 0,
     count |-> 0, premint |-> NoPremint, todo |-> <<>>, polled |-> "none",
     result |-> result]

Init ==
    /\ mq = [q \in QuoteIds |-> AbsentQuote]
    /\ mcall = [c \in Callers |-> IdleCall]
    /\ okCount = [q \in QuoteIds |-> 0]
    /\ issuedCount = [q \in QuoteIds |-> 0]
    /\ wq = [k \in WalletIds |-> NoQuote]
    /\ wsecrets = [k \in WalletIds |-> NoPremint]
    /\ counter = [k \in KeysetIds |-> NoCounter]
    /\ wproofs = {}
    /\ task = [t \in Tasks |-> IdleTask("none")]
    /\ nops = 0
    /\ incs = <<>>
    /\ derivs = <<>>
    /\ index = [p \in LockKeys |-> {}]
    /\ lookupResp = NoLookup
    /\ wkeysets = {}
    /\ active = "none"
    /\ mactive = "ks1"
    /\ transactions = <<>>

\* The mint's clock while the requests of a behaviour are served, and the
\* lifetime of a quote; expiries are compared with the clock only.
MintNow == 2
QuoteTtl == 2

\* spec.md 4.4: create (mining-share) -> Paid, create (lightning) -> Unpaid;
\* expiry = now + ttl on creation, 0 (no expiry) for a mining-share quote.
NewMintQuote(method, amount, pubkey) ==
    [state |-> IF method = "MiningShare" THEN "Paid" ELSE "Unpaid",
     method |-> method,
     amount |-> amount,
     amount_paid |-> IF method = "MiningShare" THEN amount ELSE 0,
     amount_issued |-> 0,
     pubkey |-> pubkey,
     keyset_id |-> IF method = "MiningShare" THEN MintActiveKeyset ELSE NoKeyset,
     expiry |-> IF method = "MiningShare" THEN 0 ELSE MintNow + QuoteTtl]

\* Mutant: the quote is stored without its index entry.
IndexAdd_Skipped(idx, pubkey, q) == idx

\* spec.md 4.5: the index entry pubkey -> quote id of a locked quote.
IndexAdd(idx, pubkey, q) ==
    IF pubkey = NoKey THEN idx ELSE [idx EXCEPT ![pubkey] = @ \cup {q}]

\* The quote and its index entry are written in one transaction.
MintCreateQuote(q, method, amount, pubkey) ==
    /\ mq[q].state = "Absent"
    /\ mq' = [mq EXCEPT ![q] = NewMintQuote(method, amount, pubkey)]
    /\ index' = IndexAdd(index, pubkey, q)

\* spec.md 4.4: Unpaid -> Paid on payment received.
MintPayQuote(q) ==
    /\ mq[q].state = "Unpaid"
    /\ mq' = [mq EXCEPT ![q].state = "Paid", ![q].amount_paid = mq[q].amount]

\* ------------------------------------------------ mint: issue (spec.md 4.6)
\* Check 2 of the pipeline: the quote is not expired; expiry 0 never expires.
ExpiryCheck(expiry) ==
    IF expiry # 0 /\ expiry <= MintNow THEN "QuoteExpired" ELSE "Ok"

\* Mutant: a quote held Pending by another call passes the state check.
StateCheck_PendingPasses(state) ==
    IF state = "Unpaid" THEN "UnpaidQuote"
    ELSE IF state = "Issued" THEN "QuoteAlreadyIssued"
    ELSE "Ok"

\* Check 3 of the pipeline: the quote is Paid.
StateCheck(state) ==
    IF state = "Unpaid" THEN "UnpaidQuote"
    ELSE IF state \in {"Pending", "Issued"} THEN "QuoteAlreadyIssued"
    ELSE "Ok"

\* Mutant: any signature that is present unlocks a locked quote.
SignatureCheck_Unverified(quote, pubkey, sig) ==
    IF pubkey # NoKey
    THEN (IF sig # NoSig THEN "Ok" ELSE "SignatureMissingOrInvalid")
    ELSE (IF sig = NoSig THEN "Ok" ELSE "SignatureMissingOrInvalid")

\* Check 4: a locked quote needs a verifying signature, an unlocked one none.
SignatureCheck(quote, pubkey, sig) ==
    IF pubkey # NoKey
    THEN (IF Verify(sig, pubkey, quote) THEN "Ok" ELSE "SignatureMissingOrInvalid")
    ELSE (IF sig = NoSig THEN "Ok" ELSE "SignatureMissingOrInvalid")

\* Check 5: one keyset for all outputs, the quote's (mining share) or the
\* active one (lightning).
KeysetCheck(q, outputs) ==
    LET ids == {outputs[i].keyset_id : i \in DOMAIN outputs} IN
    IF \E id \in ids : id \notin KeysetIds THEN "UnknownKeyset"
    ELSE IF Cardinality(ids) > 1 THEN "KeysetMismatch"
    ELSE IF \E id \in ids :
              id # (IF q.method = "MiningShare" THEN q.keyset_id ELSE MintActiveKeyset)
         THEN "KeysetMismatch"
    ELSE "Ok"

\* Mutant: outputs that sum to less than the amount pass (partial issuance).
AmountCheck_AtMost(amount, outputs) ==
    IF total_amount(outputs) <= amount THEN "Ok" ELSE "AmountMismatch"

\* Check 6: the outputs sum to the quote's amount (full issuance only).
AmountCheck(amount, outputs) ==
    IF total_amount(outputs) = amount THEN "Ok" ELSE "AmountMismatch"

\* Check 7: every output amount is in the keyset's table.
DenominationCheck(outputs) ==
    IF \A i \in DOMAIN outputs : outputs[i].amount \in KeysetAmounts
    THEN "Ok" ELSE "InvalidAmountDenomination"

\* The configured per-request cap on the number of outputs.
OutputCap == 2

\* Check 8: the output count is within the cap.
OutputCountCheck(outputs) ==
    IF Len(outputs) <= OutputCap THEN "Ok" ELSE "OutputCountExceeded"

\* The first failing check of a list of results, or "Ok".
RECURSIVE FirstError(_)
FirstError(rs) ==
    IF rs = <<>> THEN "Ok"
    ELSE IF Head(rs) # "Ok" THEN Head(rs)
    ELSE FirstError(Tail(rs))

\* Mutant: the outputs are checked before the quote.
IssueValidate_OutputsFirst(quote, outputs, sig) ==
    LET q == mq[quote] IN
    IF q.state = "Absent" THEN "UnknownQuote"
    ELSE FirstError(<<KeysetCheck(q, outputs),
                      AmountCheck(q.amount, outputs),
                      DenominationCheck(outputs),
                      OutputCountCheck(outputs),
                      ExpiryCheck(q.expiry),
                      StateCheck(q.state),
                      SignatureCheck(quote, q.pubkey, sig)>>)

\* The validation pipeline, fail fast.
IssueValidate(quote, outputs, sig) ==
    LET q == mq[quote] IN
    IF q.state = "Absent" THEN "UnknownQuote"
    ELSE FirstError(<<ExpiryCheck(q.expiry),
                      StateCheck(q.state),
                      SignatureCheck(quote, q.pubkey, sig),
                      KeysetCheck(q, outputs),
                      AmountCheck(q.amount, outputs),
                      DenominationCheck(outputs),
                      OutputCountCheck(outputs)>>)

\* Mutant: only one quote of the set is marked, the others in a later commit.
MarkPending_OneByOne(quotes, m) ==
    [q \in QuoteIds |->
        IF quotes # {} /\ q = (CHOOSE x \in quotes : TRUE)
        THEN [m[q] EXCEPT !.state = "Pending"] ELSE m[q]]

\* Paid -> Pending, the lease taken when issuance begins.
MarkPending(quotes, m) ==
    [q \in QuoteIds |-> IF q \in quotes THEN [m[q] EXCEPT !.state = "Pending"] ELSE m[q]]

\* Pending -> Issued with amount_issued set; a lightning quote records the
\* keyset of its outputs at first issuance.
MarkIssued(quotes, ks, m) ==
    [q \in QuoteIds |->
        IF q \in quotes
        THEN [m[q] EXCEPT !.state = "Issued",
                          !.amount_issued = m[q].amount,
                          !.keyset_id = IF m[q].keyset_id = NoKeyset THEN ks
                                        ELSE m[q].keyset_id]
        ELSE m[q]]

\* Mutant: the lease is not released.
ReleasePending_Forgotten(quotes, m) == m

\* Mutant: a released quote falls back to Unpaid.
ReleasePending_ToUnpaid(quotes, m) ==
    [q \in QuoteIds |-> IF q \in quotes THEN [m[q] EXCEPT !.state = "Unpaid"] ELSE m[q]]

\* Pending -> Paid, the lease released when issuance fails before return.
ReleasePending(quotes, m) ==
    [q \in QuoteIds |-> IF q \in quotes THEN [m[q] EXCEPT !.state = "Paid"] ELSE m[q]]

\* One blind signature per output, in input order.
BlindSign(outputs) ==
    [i \in DOMAIN outputs |->
        [amount |-> outputs[i].amount, keyset_id |-> outputs[i].keyset_id,
         c |-> outputs[i].secret, dleq |-> "Valid"]]

\* A request as it reaches the mint.
Request(kind, quotes, outputs, sigPresent, sigs) ==
    [pc |-> "sent", kind |-> kind, quotes |-> quotes, outputs |-> outputs,
     sigPresent |-> sigPresent, sigs |-> sigs, seen |-> "none", result |-> "none",
     signatures |-> <<>>]

\* The call once it has returned: the request is gone, the result stays.
Returned(call, result, signatures) ==
    [pc |-> "done", kind |-> call.kind,
     quotes |-> IF call.kind = "issue" THEN call.quotes ELSE <<>>,
     outputs |-> <<>>, sigPresent |-> FALSE, sigs |-> <<>>,
     seen |-> call.seen, result |-> result, signatures |-> signatures]

\* The mint takes one request at a time off the wire.
WireFree == \A c \in Callers : mcall[c].pc # "sent"

\* issue(request) up to the point where the quote is marked Pending.
MintIssue(c) ==
    /\ mcall[c].pc = "sent"
    /\ mcall[c].kind = "issue"
    /\ LET quote == mcall[c].quotes[1]
           err == IssueValidate(quote, mcall[c].outputs, mcall[c].sigs[1])
           call == [mcall[c] EXCEPT !.seen = mq[quote].state]
       IN
       /\ mcall' = [mcall EXCEPT ![c] =
             IF err = "Ok" THEN [call EXCEPT !.pc = "pending"]
             ELSE Returned(call, err, <<>>)]
       /\ mq' = IF err = "Ok" THEN MarkPending({quote}, mq) ELSE mq
    /\ UNCHANGED <<okCount, issuedCount, index, lookupResp>>

\* Signatures produced, amount_issued updated, state committed: one transaction.
MintIssueFinish(c) ==
    /\ mcall[c].pc = "pending"
    /\ mcall[c].kind = "issue"
    /\ LET quote == mcall[c].quotes[1] IN
       /\ mq' = MarkIssued({quote}, mcall[c].outputs[1].keyset_id, mq)
       /\ mcall' = [mcall EXCEPT ![c] =
             Returned(mcall[c], "Ok", BlindSign(mcall[c].outputs))]
       /\ okCount' = [okCount EXCEPT ![quote] = @ + 1]
       /\ issuedCount' = [issuedCount EXCEPT ![quote] = @ + 1]
    /\ UNCHANGED <<index, lookupResp>>

\* An error after the quote was marked Pending: revert to Paid.
MintIssueFail(c) ==
    /\ mcall[c].pc = "pending"
    /\ mcall[c].kind = "issue"
    /\ mq' = ReleasePending({mcall[c].quotes[1]}, mq)
    /\ mcall' = [mcall EXCEPT ![c] = Returned(mcall[c], "InternalError", <<>>)]
    /\ UNCHANGED <<okCount, issuedCount, index, lookupResp>>

\* ------------------------------------------ mint: batch issue (spec.md 4.7)
\* Largest batch the mint accepts.
BatchLimit == 100

\* The signature slot of the i-th quote: null when the array is absent.
SigAt(sigPresent, sigs, i) ==
    IF sigPresent /\ i \in DOMAIN sigs THEN sigs[i] ELSE NoSig

\* has_duplicate_quotes
has_duplicate_quotes(quotes) ==
    \E i, j \in DOMAIN quotes : i # j /\ quotes[i] = quotes[j]

\* The per-quote pipeline of the i-th quote of a batch (checks 1, 3, 4).
BatchQuoteCheck(quotes, sigPresent, sigs, i) ==
    LET q == mq[quotes[i]] IN
    IF q.state = "Absent" THEN "UnknownQuote"
    ELSE FirstError(<<StateCheck(q.state),
                      SignatureCheck(quotes[i], q.pubkey, SigAt(sigPresent, sigs, i))>>)

\* All quotes share the payment method.
BatchMethodCheck(quotes) ==
    IF \A i \in DOMAIN quotes : mq[quotes[i]].method = mq[quotes[1]].method
    THEN "Ok" ELSE "BatchPaymentMethodMismatch"

\* One active keyset, compatible with every output and every quote.
BatchKeysetCheck(quotes, outputs) ==
    IF /\ \A i \in DOMAIN outputs : outputs[i].keyset_id = MintActiveKeyset
       /\ \A i \in DOMAIN quotes :
             mq[quotes[i]].keyset_id \in {NoKeyset, MintActiveKeyset}
    THEN "Ok" ELSE "BatchKeysetMismatch"

\* The quotes' amounts, in order.
BatchAmounts(quotes) == [i \in DOMAIN quotes |-> mq[quotes[i]].amount]

\* Mutant: the length of the signature array is not looked at.
SignatureCountCheck_Skipped(quotes, sigPresent, sigs) == "Ok"

\* If signature is present, signature.len() == quote.len().
SignatureCountCheck(quotes, sigPresent, sigs) ==
    IF sigPresent /\ Len(sigs) # Len(quotes) THEN "SignatureCountMismatch" ELSE "Ok"

BatchValidate(quotes, outputs, sigPresent, sigs) ==
    IF Len(quotes) = 0 THEN "BatchEmpty"
    ELSE IF Len(quotes) > BatchLimit THEN "BatchSizeExceeded"
    ELSE IF has_duplicate_quotes(quotes) THEN "BatchDuplicateQuote"
    ELSE IF SignatureCountCheck(quotes, sigPresent, sigs) # "Ok"
         THEN SignatureCountCheck(quotes, sigPresent, sigs)
    ELSE LET perQuote == [i \in DOMAIN quotes |->
                             BatchQuoteCheck(quotes, sigPresent, sigs, i)] IN
         IF FirstError(perQuote) # "Ok" THEN FirstError(perQuote)
         ELSE FirstError(<<BatchMethodCheck(quotes),
                           BatchKeysetCheck(quotes, outputs),
                           AmountCheck(SumSeq(BatchAmounts(quotes)), outputs),
                           DenominationCheck(outputs)>>)

\* Steps 1-3: validate every quote, then mark them all Pending in one commit.
MintBatch(c) ==
    /\ mcall[c].pc = "sent"
    /\ mcall[c].kind = "batch"
    /\ LET err == BatchValidate(mcall[c].quotes, mcall[c].outputs,
                                mcall[c].sigPresent, mcall[c].sigs)
       IN
       /\ mcall' = [mcall EXCEPT ![c] =
             IF err = "Ok" THEN [mcall[c] EXCEPT !.pc = "pending"]
             ELSE Returned(mcall[c], err, <<>>)]
       /\ mq' = IF err = "Ok" THEN MarkPending(Range(mcall[c].quotes), mq) ELSE mq
    /\ UNCHANGED <<okCount, issuedCount, index, lookupResp>>

\* Steps 4-6: sign the outputs, mark every quote Issued, commit.
MintBatchFinish(c) ==
    /\ mcall[c].pc = "pending"
    /\ mcall[c].kind = "batch"
    /\ mq' = MarkIssued(Range(mcall[c].quotes), MintActiveKeyset, mq)
    /\ mcall' = [mcall EXCEPT ![c] =
          Returned(mcall[c], "Ok", BlindSign(mcall[c].outputs))]
    /\ issuedCount' = [q \in QuoteIds |->
          IF q \in Range(mcall[c].quotes) THEN issuedCount[q] + 1 ELSE issuedCount[q]]
    /\ UNCHANGED <<okCount, index, lookupResp>>

\* An error after the batch was marked Pending: every quote reverts to Paid.
MintBatchFail(c) ==
    /\ mcall[c].pc = "pending"
    /\ mcall[c].kind = "batch"
    /\ mq' = ReleasePending(Range(mcall[c].quotes), mq)
    /\ mcall' = [mcall EXCEPT ![c] = Returned(mcall[c], "InternalError", <<>>)]
    /\ UNCHANGED <<okCount, issuedCount, index, lookupResp>>

\* ------------------------------------------- mint: lookup (spec.md 4.5)
\* enum MintQuoteStateFilter
FilterAll == [kind |-> "All", state |-> "none"]
OnlyPaid == [kind |-> "OnlyPaid", state |-> "none"]
OnlyUnpaid == [kind |-> "OnlyUnpaid", state |-> "none"]
OnlyIssued == [kind |-> "OnlyIssued", state |-> "none"]
Specific(state) == [kind |-> "Specific", state |-> state]
MintQuoteStateFilter ==
    {FilterAll, OnlyPaid, OnlyUnpaid, OnlyIssued} \cup {Specific(s) : s \in QuoteState}

\* Mutant: the default filter lets every state through.
DefaultFilter_All == FilterAll

\* impl Default for MintQuoteStateFilter
DefaultFilter == OnlyPaid

\* A request body without the field state_filter.
Omitted == [kind |-> "omitted", state |-> "none"]

\* #[serde(default)] pub state_filter: the filter a request body decodes to.
DecodeFilter(field) == IF field = Omitted THEN DefaultFilter ELSE field

\* Mutant: a quote being issued still counts as Paid.
FilterMatches_PendingIsPaid(filter, state) ==
    CASE filter.kind = "All" -> TRUE
      [] filter.kind = "OnlyPaid" -> state \in {"Paid", "Pending"}
      [] filter.kind = "OnlyUnpaid" -> state = "Unpaid"
      [] filter.kind = "OnlyIssued" -> state = "Issued"
      [] filter.kind = "Specific" -> state = filter.state

\* The states a filter lets through.
FilterMatches(filter, state) ==
    CASE filter.kind = "All" -> TRUE
      [] filter.kind = "OnlyPaid" -> state = "Paid"
      [] filter.kind = "OnlyUnpaid" -> state = "Unpaid"
      [] filter.kind = "OnlyIssued" -> state = "Issued"
      [] filter.kind = "Specific" -> state = filter.state

\* struct MintQuoteLookupItem, for quote q found under pubkey.
LookupItem(pubkey, q) ==
    [pubkey |-> pubkey, quote |-> q, method |-> mq[q].method,
     amount |-> mq[q].amount, keyset_id |-> mq[q].keyset_id]

\* lookup_mint_quotes_by_pubkeys: for each pubkey of the request its index
\* entries, each kept when the quote's state passes the filter; the entries
\* of one pubkey come in the order given (the order is unspecified).
RECURSIVE lookup_mint_quotes_by_pubkeys(_, _, _)
lookup_mint_quotes_by_pubkeys(pubkeys, filter, order) ==
    IF pubkeys = <<>> THEN <<>>
    ELSE LET pubkey == Head(pubkeys)
             ids == SelectSeq(order, LAMBDA q :
                        q \in index[pubkey] /\ FilterMatches(filter, mq[q].state))
         IN [i \in DOMAIN ids |-> LookupItem(pubkey, ids[i])]
               \o lookup_mint_quotes_by_pubkeys(Tail(pubkeys), filter, order)

\* post_mint_quote_lookup: the handler decodes the body and answers with the
\* quotes the mint's lookup returns.
post_mint_quote_lookup(pubkeys, field, order) ==
    /\ lookupResp' =
          [pubkeys |-> pubkeys, state_filter |-> field,
           quotes |-> lookup_mint_quotes_by_pubkeys(pubkeys, DecodeFilter(field), order)]
    /\ UNCHANGED <<mq, mcall, okCount, issuedCount, index>>

\* ------------------------------------------------------- the mint's clients
\* The amounts quotes are created with: q1 is a one-output quote, q2 the
\* largest one.
QuoteAmounts == {1, MaxAmount}
AmountOf(q) == IF q = "q1" THEN 1 ELSE MaxAmount

\* The outputs a client may put together: the split of an amount, outputs of
\* the inactive keyset, and one output of an amount no keyset has.
RawOutputs ==
    {Outputs(Split(a), MintActiveKeyset, 0) : a \in QuoteAmounts}
        \cup {Outputs(Split(1), "ks2", 0), Outputs(<<3>>, MintActiveKeyset, 0)}

RawSigs(quote) == {NoSig} \cup {Sign(sk, quote) : sk \in SecretKeys}

CreateQuote ==
    /\ \E q \in QuoteIds, method \in {"Bolt11", "MiningShare"}, pubkey \in {NoKey, "P1"} :
          MintCreateQuote(q, method, AmountOf(q), pubkey)
    /\ UNCHANGED <<mcall, okCount, issuedCount, lookupResp>>
    /\ UNCHANGED wvars

PayQuote ==
    /\ \E q \in QuoteIds : MintPayQuote(q)
    /\ UNCHANGED <<mcall, okCount, issuedCount, index, lookupResp>>
    /\ UNCHANGED wvars

\* A client sends a MintRequest (each client sends one request).
ClientIssue ==
    /\ WireFree
    /\ \E c \in Clients, quote \in QuoteIds, outputs \in RawOutputs :
          \E sig \in RawSigs(quote) :
             /\ mcall[c].pc = "idle"
             /\ mcall' = [mcall EXCEPT ![c] =
                   Request("issue", <<quote>>, outputs, sig # NoSig, <<sig>>)]
    /\ UNCHANGED <<mq, okCount, issuedCount, index, lookupResp>>
    /\ UNCHANGED wvars

IssueBegin ==
    /\ \E c \in Callers : MintIssue(c)
    /\ UNCHANGED wvars

IssueFinish ==
    /\ \E c \in Callers : MintIssueFinish(c)
    /\ UNCHANGED wvars

IssueFail ==
    /\ \E c \in Callers : MintIssueFail(c)
    /\ UNCHANGED wvars

\* The quote lists and signature arrays of a client's batch request.
RawBatches == {<<>>} \cup {<<q>> : q \in QuoteIds} \cup (QuoteIds \X QuoteIds)

RawSigArrays(quotes) ==
    {<<FALSE, <<>>>>}
        \cup {<<TRUE, [i \in DOMAIN quotes |-> NoSig]>>}
        \cup {<<TRUE, [i \in DOMAIN quotes |->
                          IF mq[quotes[i]].pubkey = NoKey THEN NoSig
                          ELSE Sign("sk1", quotes[i])]>>}
        \cup {<<TRUE, <<Sign("sk1", "q1")>>>>}

\* A client sends a BatchMintRequest.
ClientBatch ==
    /\ WireFree
    /\ \E c \in Clients, quotes \in RawBatches :
         \E total \in {SumSeq(BatchAmounts(quotes)), SumSeq(BatchAmounts(quotes)) + 1} :
           \E sa \in RawSigArrays(quotes) :
             /\ mcall[c].pc = "idle"
             /\ mcall' = [mcall EXCEPT ![c] =
                   Request("batch", quotes, Outputs(Split(total), MintActiveKeyset, 0),
                           sa[1], sa[2])]
    /\ UNCHANGED <<mq, okCount, issuedCount, index, lookupResp>>
    /\ UNCHANGED wvars

BatchBegin ==
    /\ \E c \in Callers : MintBatch(c)
    /\ UNCHANGED wvars

BatchFinish ==
    /\ \E c \in Callers : MintBatchFinish(c)
    /\ UNCHANGED wvars

BatchFail ==
    /\ \E c \in Callers : MintBatchFail(c)
    /\ UNCHANGED wvars

Next ==
    \/ CreateQuote
    \/ PayQuote
    \/ ClientIssue
    \/ IssueBegin
    \/ IssueFinish
    \/ IssueFail
    \/ ClientBatch
    \/ BatchBegin
    \/ BatchFinish
    \/ BatchFail

Spec == Init /\ [][Next]_vars

\* ---------------------------------------------- the mint and its lookups
\* The pubkey lists of lookup requests (no pubkey named twice) and the
\* orders a response may come in.
PubkeyLists == {<<>>, <<"P1">>, <<"P2">>, <<"P1", "P2">>}
LookupOrders == {<<"q1", "q2">>, <<"q2", "q1">>}

\* The filter fields of the requests clients post: none, each plain filter,
\* and Specific for the state no plain filter names.
RequestFilters == {Omitted, FilterAll, OnlyPaid, OnlyUnpaid, OnlyIssued, Specific("Pending")}

\* Quotes of both methods, unlocked or locked to either pubkey.
LockedCreateQuote ==
    /\ \E q \in QuoteIds, method \in {"Bolt11", "MiningShare"} :
          \E pubkey \in {NoKey} \cup LockKeys :
             MintCreateQuote(q, method, AmountOf(q), pubkey)
    /\ UNCHANGED <<mcall, okCount, issuedCount, lookupResp>>
    /\ UNCHANGED wvars

\* The quote's owner asks for issuance with the outputs and the signature
\* the quote needs; the owner sends one request after the other.
OwnerIssue ==
    /\ mcall["c1"].pc \in {"idle", "done"}
    /\ \E quote \in QuoteIds, sk \in SecretKeys :
          /\ mq[quote].state # "Absent"
          /\ mq[quote].pubkey \in {NoKey, PubKey(sk)}
          /\ mcall' = [mcall EXCEPT !["c1"] =
                Request("issue", <<quote>>,
                        Outputs(Split(mq[quote].amount), MintActiveKeyset, 0),
                        mq[quote].pubkey # NoKey,
                        <<IF mq[quote].pubkey # NoKey THEN Sign(sk, quote) ELSE NoSig>>)]
    /\ UNCHANGED <<mq, okCount, issuedCount, index, lookupResp>>
    /\ UNCHANGED wvars

\* A client posts a lookup request.
ClientLookup ==
    /\ \E pubkeys \in PubkeyLists, field \in RequestFilters :
          \E order \in LookupOrders : post_mint_quote_lookup(pubkeys, field, order)
    /\ UNCHANGED wvars

NextLookup ==
    \/ LockedCreateQuote
    \/ PayQuote
    \/ OwnerIssue
    \/ IssueBegin
    \/ IssueFinish
    \/ IssueFail
    \/ ClientLookup

SpecLookup == Init /\ [][NextLookup]_vars

\* --------------------------------------------- wallet: store and derivation
\* The wallet knows the mint's keysets; the active one of its unit with the
\* lowest fee is the mint's active keyset (get_active_mint_keyset and, on a
\* refreshed store, get_active_mint_keyset_local).
WalletActiveKeyset == mactive

\* The unit of the wallet, and the units of the wallets sharing its store.
WalletUnit == "sat"
Units == {"sat", "usd"}

\* Mining share amounts are limited to 1..MaxShareAmount.
MaxShareAmount == 256

\* TTL get_mint_mining_share_quote gives its quote.
MintTtl == 500000

\* localstore.increment_keyset_counter: one atomic update that returns the
\* counter after the increment; a keyset without a counter counts from 0.
increment_keyset_counter(ctr, n) == (IF ctr = NoCounter THEN 0 ELSE ctr) + n

\* Mutant: the caller takes the counter after its increment as its start.
RangeStart_AfterIncrement(new_count, num_secrets) == new_count

\* let count = new_count - num_secrets
RangeStart(new_count, num_secrets) == new_count - num_secrets

\* Wallet::mint: count.map_or(0, |c| c + 1)
NextCount(ctr) == IF ctr = NoCounter THEN 0 ELSE ctr + 1

\* create_premint_secrets: get_keyset_counter(..).unwrap_or(0)
CountOrZero(ctr) == IF ctr = NoCounter THEN 0 ELSE ctr

\* PreMintSecrets::from_xpriv / from_seed: one secret per part of the split
\* amount, the i-th derived from counter value count + i - 1.
from_xpriv(keyset_id, count, amount) ==
    [keyset_id |-> keyset_id, count |-> count, amounts |-> Split(amount)]

\* PreMintSecrets::blinded_messages
blinded_messages(premint) ==
    Outputs(premint.amounts, premint.keyset_id, premint.count)

\* The history entries of an increment and of a derivation.
IncEntry(ks, lo, hi) == [keyset |-> ks, lo |-> lo, hi |-> hi]
DerivEntry(op, premint) ==
    [op |-> op, keyset |-> premint.keyset_id, count |-> premint.count,
     n |-> Len(premint.amounts)]

\* Mutant: the local quote starts in the enum's default state.
MiningShareQuote_Unpaid(amount) ==
    [state |-> "Unpaid", method |-> "MiningShare", amount |-> amount,
     amount_paid |-> amount, amount_issued |-> 0, secret_key |-> NoKey,
     expiry |-> 0, unit |-> WalletUnit]

\* Mutant: the local quote records more paid than quoted.
MiningShareQuote_Overpaid(amount) ==
    [state |-> "Paid", method |-> "MiningShare", amount |-> amount,
     amount_paid |-> amount + 1, amount_issued |-> 0, secret_key |-> NoKey,
     expiry |-> 0, unit |-> WalletUnit]

\* The local quote of mint_mining_share_quote and mint_tokens_for_pubkey.
MiningShareQuote(amount) ==
    [state |-> "Paid", method |-> "MiningShare", amount |-> amount,
     amount_paid |-> amount, amount_issued |-> 0, secret_key |-> NoKey,
     expiry |-> 0, unit |-> WalletUnit]

\* The local quote of get_mint_mining_share_quote.
ShareQuoteWithTtl(amount) ==
    [state |-> "Paid", method |-> "MiningShare", amount |-> amount,
     amount_paid |-> 0, amount_issued |-> 0, secret_key |-> NoKey,
     expiry |-> MintTtl, unit |-> WalletUnit]

\* MintQuote::amount_mintable
amount_mintable(quote) == quote.amount_paid - quote.amount_issued

\* The outcomes of verify_dleq on a blind signature.
DleqResults == {"Valid", "MissingProof", "Invalid"}

\* Mutant: a signature whose proof does not verify is accepted too.
DleqAccepted_Any(signatures) == TRUE

\* Ok(_) | Err(MissingDleqProof) => (), Err(_) => CouldNotVerifyDleq, for
\* every signature of the response.
DleqAccepted(signatures) ==
    \A i \in DOMAIN signatures : signatures[i].dleq \in {"Valid", "MissingProof"}

\* Wallet::construct_proofs: one proof per (secret, signature) pair.
construct_proofs(premint, signatures) ==
    {[amount |-> premint.amounts[i], keyset_id |-> signatures[i].keyset_id,
      secret |-> premint.count + i - 1, c |-> signatures[i].c] :
        i \in DOMAIN premint.amounts}

\* Mutant: only amount zero is out of range.
OutOfLimitRange_ZeroOnly(amount) == amount = 0

\* amount == Amount::ZERO || amount > Amount::from(256)
OutOfLimitRange(amount) == amount = 0 \/ amount > MaxShareAmount

\* An operation starts on the first free task.
FirstFree(t) ==
    /\ task[t].pc = "idle"
    /\ (t = "t2" => task["t1"].pc # "idle")

\* An issuance operation starts while operations are left.
CanStart(t) ==
    /\ FirstFree(t)
    /\ nops < MaxOps

\* The task record of a running operation.
Running(pc, op, quote) ==
    [IdleTask("none") EXCEPT !.pc = pc, !.op = op, !.quote = quote]

\* ------------------------------------- wallet: mint_mining_share_quote
\* Amount check, atomic counter increment, derivation.
MiningShareQuoteBegin(t, amount, q) ==
    /\ CanStart(t)
    /\ nops' = nops + 1
    /\ IF OutOfLimitRange(amount)
       THEN /\ task' = [task EXCEPT ![t] =
                  [IdleTask("AmountOutofLimitRange") EXCEPT !.amount = amount]]
            /\ UNCHANGED <<counter, incs, derivs>>
       ELSE LET ks == WalletActiveKeyset
                num_secrets == Len(Split(amount))
                new_count == increment_keyset_counter(counter[ks], num_secrets)
                count == RangeStart(new_count, num_secrets)
                premint == from_xpriv(ks, count, amount)
            IN
            /\ counter' = [counter EXCEPT ![ks] = new_count]
            /\ incs' = Append(incs, IncEntry(ks, count, new_count))
            /\ derivs' = Append(derivs, DerivEntry("mint_mining_share_quote", premint))
            /\ task' = [task EXCEPT ![t] =
                  [Running("quote_store", "mint_mining_share_quote", q)
                      EXCEPT !.amount = amount, !.count = count, !.premint = premint]]
    /\ UNCHANGED <<mvars, wq, wsecrets, wproofs>>
    /\ UNCHANGED <<kvars, transactions>>

\* add_mint_quote, add_premint_secrets.
MiningShareQuoteStore(t) ==
    /\ task[t].pc = "quote_store"
    /\ wq' = [wq EXCEPT ![task[t].quote] = MiningShareQuote(task[t].amount)]
    /\ wsecrets' = [wsecrets EXCEPT ![task[t].quote] = task[t].premint]
    /\ task' = [task EXCEPT ![t] = IdleTask("Ok")]
    /\ UNCHANGED <<mvars, counter, wproofs, nops, incs, derivs>>
    /\ UNCHANGED <<kvars, transactions>>

\* add_mint_quote has returned and add_premint_secrets fails: the error is
\* propagated and the quote stays.
MiningShareQuoteStoreError(t) ==
    /\ task[t].pc = "quote_store"
    /\ wq' = [wq EXCEPT ![task[t].quote] = MiningShareQuote(task[t].amount)]
    /\ task' = [task EXCEPT ![t] = IdleTask("Database")]
    /\ UNCHANGED <<mvars, wsecrets, counter, wproofs, nops, incs, derivs>>
    /\ UNCHANGED <<kvars, transactions>>

\* ------------------------------------------- wallet: mint_mining_share
\* Local checks, then the MintRequest is posted with signature: None.
MintMiningShareSend(t, q) ==
    /\ CanStart(t)
    /\ nops' = nops + 1
    /\ LET err == IF wq[q].state = "Absent" THEN "UnknownQuote"
                  ELSE IF wq[q].method # "MiningShare" THEN "InvalidPaymentMethod"
                  ELSE IF wq[q].state # "Paid" THEN "UnpaidQuote"
                  ELSE IF wsecrets[q] = NoPremint THEN "PreMintSecretsNotFound"
                  ELSE "Ok"
       IN
       IF err # "Ok"
       THEN /\ task' = [task EXCEPT ![t] = IdleTask(err)]
            /\ UNCHANGED mcall
       ELSE /\ mcall' = [mcall EXCEPT ![t] =
                  Request("issue", <<q>>, blinded_messages(wsecrets[q]), FALSE, <<NoSig>>)]
            /\ task' = [task EXCEPT ![t] =
                  [Running("share_wait", "mint_mining_share", q)
                      EXCEPT !.premint = wsecrets[q]]]
    /\ UNCHANGED <<mq, okCount, issuedCount, index, lookupResp, wq,
                   wsecrets, counter, wproofs, incs, derivs>>
    /\ UNCHANGED <<kvars, transactions>>

\* The response: proofs are stored and the premint secrets removed; the
\* local quote is left as it is.
MintMiningShareReceive(t) ==
    /\ task[t].pc = "share_wait"
    /\ mcall[t].pc = "done"
    /\ IF mcall[t].result # "Ok"
       THEN /\ task' = [task EXCEPT ![t] = IdleTask(mcall[t].result)]
            /\ UNCHANGED <<wproofs, wsecrets>>
       ELSE IF Len(mcall[t].signatures) # Len(task[t].premint.amounts)
       THEN /\ task' = [task EXCEPT ![t] = IdleTask("MismatchedSignatureCount")]
            /\ UNCHANGED <<wproofs, wsecrets>>
       ELSE /\ wproofs' = wproofs \cup construct_proofs(task[t].premint, mcall[t].signatures)
            /\ wsecrets' = [wsecrets EXCEPT ![task[t].quote] = NoPremint]
            /\ task' = [task EXCEPT ![t] = IdleTask("Ok")]
    /\ mcall' = [mcall EXCEPT ![t] = IdleCall]
    /\ UNCHANGED <<mq, okCount, issuedCount, index, lookupResp, wq,
                   counter, nops, incs, derivs>>
    /\ UNCHANGED <<kvars, transactions>>

\* ------------------------- wallet: mint_tokens_for_pubkey(s) (stratum proxy)
\* The orders a lookup response may come in.
QuoteOrders == {<<"q1", "q2">>, <<"q2", "q1">>}

\* The mint's lookup by pubkey with the default filter OnlyPaid: the Paid
\* quotes locked to the pubkey (spec.md 4.5).
LookupQuotes(pubkey, order) ==
    SelectSeq(order, LAMBDA q : mq[q].state = "Paid" /\ mq[q].pubkey = pubkey)

\* lookup_mint_quotes_by_pubkeys; key is the optional secret key, NoKey when
\* the call comes from mint_tokens_for_pubkeys.
TokensLookup(t, pubkey, key) ==
    /\ CanStart(t)
    /\ nops' = nops + 1
    /\ \E order \in QuoteOrders :
          task' = [task EXCEPT ![t] =
             IF LookupQuotes(pubkey, order) = <<>> THEN IdleTask("Ok")
             ELSE [Running("tokens_derive", "mint_tokens_for_pubkey", "none")
                      EXCEPT !.key = key, !.todo = LookupQuotes(pubkey, order)]]
    /\ UNCHANGED <<mvars, wq, wsecrets, counter, wproofs, incs, derivs>>
    /\ UNCHANGED <<kvars, transactions>>

\* The loop moves to the next quote of the lookup response, or returns.
NextQuote(tk) ==
    IF Len(tk.todo) <= 1 THEN IdleTask("Ok")
    ELSE [Running("tokens_derive", tk.op, "none")
             EXCEPT !.key = tk.key, !.todo = Tail(tk.todo)]

\* Per quote: a quote of another method is skipped; else the counter is
\* incremented and the secrets derived.
TokensDerive(t) ==
    /\ task[t].pc = "tokens_derive"
    /\ LET q == Head(task[t].todo)
           info == mq[q]
           num_secrets == Len(Split(info.amount))
           new_count == increment_keyset_counter(counter[info.keyset_id], num_secrets)
           count == RangeStart(new_count, num_secrets)
           premint == from_xpriv(info.keyset_id, count, info.amount)
       IN
       IF info.method # "MiningShare"
       THEN /\ task' = [task EXCEPT ![t] = NextQuote(task[t])]
            /\ UNCHANGED <<counter, incs, derivs>>
       ELSE /\ counter' = [counter EXCEPT ![info.keyset_id] = new_count]
            /\ incs' = Append(incs, IncEntry(info.keyset_id, count, new_count))
            /\ derivs' = Append(derivs, DerivEntry("mint_tokens_for_pubkey", premint))
            /\ task' = [task EXCEPT ![t] =
                  [@ EXCEPT !.pc = "tokens_send", !.quote = q, !.amount = info.amount,
                            !.count = count, !.premint = premint]]
    /\ UNCHANGED <<mvars, wq, wsecrets, wproofs, nops>>
    /\ UNCHANGED <<kvars, transactions>>

\* increment_keyset_counter returns an error of the store: the error is
\* propagated with `?`, the call returns it and the loop ends.
TokensDeriveError(t) ==
    /\ task[t].pc = "tokens_derive"
    /\ mq[Head(task[t].todo)].method = "MiningShare"
    /\ task' = [task EXCEPT ![t] = IdleTask("Database")]
    /\ UNCHANGED <<mvars, wq, wsecrets, counter, wproofs, nops, incs, derivs>>
    /\ UNCHANGED <<kvars, transactions>>

\* The quote and secrets are saved and the request posted, signed only when
\* a secret key was passed.
TokensSend(t) ==
    /\ task[t].pc = "tokens_send"
    /\ LET q == task[t].quote
           key == task[t].key
       IN
       /\ wq' = [wq EXCEPT ![q] = MiningShareQuote(task[t].amount)]
       /\ wsecrets' = [wsecrets EXCEPT ![q] = task[t].premint]
       /\ mcall' = [mcall EXCEPT ![t] =
             Request("issue", <<q>>, blinded_messages(task[t].premint), key # NoKey,
                     <<IF key # NoKey THEN Sign(key, q) ELSE NoSig>>)]
    /\ task' = [task EXCEPT ![t].pc = "tokens_wait"]
    /\ UNCHANGED <<mq, okCount, issuedCount, index, lookupResp, counter,
                   wproofs, nops, incs, derivs>>
    /\ UNCHANGED <<kvars, transactions>>

\* Ok: proofs stored, quote and secrets removed.  Err: quote and secrets
\* removed, the loop goes on.
TokensReceive(t) ==
    /\ task[t].pc = "tokens_wait"
    /\ mcall[t].pc = "done"
    /\ LET q == task[t].quote IN
       IF /\ mcall[t].result = "Ok"
          /\ Len(mcall[t].signatures) # Len(task[t].premint.amounts)
       THEN /\ task' = [task EXCEPT ![t] = IdleTask("MismatchedSignatureCount")]
            /\ UNCHANGED <<wq, wsecrets, wproofs>>
       ELSE /\ wproofs' = IF mcall[t].result = "Ok"
                          THEN wproofs \cup construct_proofs(task[t].premint,
                                                             mcall[t].signatures)
                          ELSE wproofs
            /\ wq' = [wq EXCEPT ![q] = NoQuote]
            /\ wsecrets' = [wsecrets EXCEPT ![q] = NoPremint]
            /\ task' = [task EXCEPT ![t] = NextQuote(task[t])]
    /\ mcall' = [mcall EXCEPT ![t] = IdleCall]
    /\ UNCHANGED <<mq, okCount, issuedCount, index, lookupResp, counter, nops, incs, derivs>>
    /\ UNCHANGED <<kvars, transactions>>

\* ------------------------------------------- wallet: add_transaction
\* The Transaction record of a redemption: incoming, with the total amount
\* of the proofs constructed from the premint secrets.
Transaction(premint) ==
    [direction |-> "Incoming", amount |-> SumSeq(premint.amounts)]

\* ------------------------------------------------------- wallet: mint
\* The counter is read, the secrets derived from the value after it, the
\* request signed when the local quote holds a secret key, and posted.
MintSend(t, q) ==
    /\ CanStart(t)
    /\ nops' = nops + 1
    /\ IF wq[q].state = "Absent"
       THEN /\ task' = [task EXCEPT ![t] = IdleTask("UnknownQuote")]
            /\ UNCHANGED <<mcall, derivs>>
       ELSE LET ks == WalletActiveKeyset
                count == NextCount(counter[ks])
                premint == from_xpriv(ks, count, wq[q].amount)
                key == wq[q].secret_key
            IN
            /\ derivs' = Append(derivs, DerivEntry("mint", premint))
            /\ mcall' = [mcall EXCEPT ![t] =
                  Request("issue", <<q>>, blinded_messages(premint), key # NoKey,
                          <<IF key # NoKey THEN Sign(key, q) ELSE NoSig>>)]
            /\ task' = [task EXCEPT ![t] =
                  [Running("mint_wait", "mint", q)
                      EXCEPT !.count = count, !.premint = premint]]
    /\ UNCHANGED <<mq, okCount, issuedCount, index, lookupResp, wq,
                   wsecrets, counter, wproofs, incs>>
    /\ UNCHANGED <<kvars, transactions>>

\* The response: the quote is removed, the counter incremented by the number
\* of proofs, the proofs stored.
MintReceive(t) ==
    /\ task[t].pc = "mint_wait"
    /\ mcall[t].pc = "done"
    /\ IF mcall[t].result # "Ok"
       THEN /\ task' = [task EXCEPT ![t] = IdleTask(mcall[t].result)]
            /\ UNCHANGED <<wq, counter, wproofs, incs, transactions>>
       ELSE IF ~DleqAccepted(mcall[t].signatures)
       THEN /\ task' = [task EXCEPT ![t] = IdleTask("CouldNotVerifyDleq")]
            /\ UNCHANGED <<wq, counter, wproofs, incs, transactions>>
       ELSE LET ks == task[t].premint.keyset_id
                proofs == construct_proofs(task[t].premint, mcall[t].signatures)
                n == Len(task[t].premint.amounts)
                new_count == increment_keyset_counter(counter[ks], n)
            IN
            /\ wq' = [wq EXCEPT ![task[t].quote] = NoQuote]
            /\ counter' = [counter EXCEPT ![ks] = new_count]
            /\ incs' = Append(incs, IncEntry(ks, new_count - n, new_count))
            /\ wproofs' = wproofs \cup proofs
            /\ transactions' = Append(transactions,
                  Transaction(task[t].premint))
            /\ task' = [task EXCEPT ![t] = IdleTask("Ok")]
    /\ mcall' = [mcall EXCEPT ![t] = IdleCall]
    /\ UNCHANGED <<mq, okCount, issuedCount, index, lookupResp, wsecrets, nops, derivs>>
    /\ UNCHANGED kvars

\* ------------------------------------- wallet: create_premint_secrets
\* The existence check by quote id, the quote stored by
\* get_mint_mining_share_quote under the hash of the id, the counter read.
PremintCheck(t, amount, q) ==
    /\ CanStart(t)
    /\ nops' = nops + 1
    /\ IF wq[q].state # "Absent"
       THEN /\ task' = [task EXCEPT ![t] = IdleTask("PaidQuote")]
            /\ UNCHANGED wq
       ELSE /\ wq' = [wq EXCEPT ![HashOf(q)] = ShareQuoteWithTtl(amount)]
            /\ task' = [task EXCEPT ![t] =
                  [Running("premint_store", "create_premint_secrets", q)
                      EXCEPT !.amount = amount,
                             !.count = CountOrZero(counter[WalletActiveKeyset])]]
    /\ UNCHANGED <<mvars, wsecrets, counter, wproofs, incs, derivs>>
    /\ UNCHANGED <<kvars, transactions>>

\* The secrets are derived from the value read, stored under the quote id,
\* and the counter incremented.
PremintStore(t) ==
    /\ task[t].pc = "premint_store"
    /\ LET ks == WalletActiveKeyset
           premint == from_xpriv(ks, task[t].count, task[t].amount)
           n == Len(premint.amounts)
           new_count == increment_keyset_counter(counter[ks], n)
       IN
       /\ wsecrets' = [wsecrets EXCEPT ![task[t].quote] = premint]
       /\ derivs' = Append(derivs, DerivEntry("create_premint_secrets", premint))
       /\ counter' = [counter EXCEPT ![ks] = new_count]
       /\ incs' = Append(incs, IncEntry(ks, new_count - n, new_count))
    /\ task' = [task EXCEPT ![t] = IdleTask("Ok")]
    /\ UNCHANGED <<mvars, wq, wproofs, nops>>
    /\ UNCHANGED <<kvars, transactions>>

\* ------------------------------- wallet: get_mint_mining_share_quote
\* The quote is built from the request as it is and stored under the header
\* hash; neither the amount nor the hash is checked.
GetShareQuote(t, amount, header_hash) ==
    /\ CanStart(t)
    /\ nops' = nops + 1
    /\ wq' = [wq EXCEPT ![header_hash] = ShareQuoteWithTtl(amount)]
    /\ task' = [task EXCEPT ![t] = IdleTask("Ok")]
    /\ UNCHANGED <<mvars, wsecrets, counter, wproofs, incs, derivs>>
    /\ UNCHANGED <<kvars, transactions>>

\* ------------------------------------ wallet: get_mining_share_proofs
\* The quote and the secrets are read under share_hash; the request names
\* quote_id and carries signature: None.
ShareProofsSend(t, quote_id, share_hash) ==
    /\ CanStart(t)
    /\ nops' = nops + 1
    /\ LET premint == IF share_hash \in QuoteIds THEN wsecrets[share_hash]
                      ELSE NoPremint
           err == IF wq[share_hash].state = "Absent" THEN "Panic"
                  ELSE IF premint = NoPremint THEN "UnknownQuote"
                  ELSE IF premint.keyset_id # WalletActiveKeyset THEN "UnknownKeySet"
                  ELSE "Ok"
       IN
       IF err # "Ok"
       THEN /\ task' = [task EXCEPT ![t] = IdleTask(err)]
            /\ UNCHANGED mcall
       ELSE /\ mcall' = [mcall EXCEPT ![t] =
                  Request("issue", <<quote_id>>, blinded_messages(premint), FALSE,
                          <<NoSig>>)]
            /\ task' = [task EXCEPT ![t] =
                  [Running("proofs_wait", "get_mining_share_proofs", share_hash)
                      EXCEPT !.premint = premint]]
    /\ UNCHANGED <<mq, okCount, issuedCount, index, lookupResp, wq,
                   wsecrets, counter, wproofs, incs, derivs>>
    /\ UNCHANGED <<kvars, transactions>>

\* The response: the quote is removed, the counter incremented by the number
\* of proofs, the proofs stored.
ShareProofsReceive(t) ==
    /\ task[t].pc = "proofs_wait"
    /\ mcall[t].pc = "done"
    /\ IF mcall[t].result # "Ok"
       THEN /\ task' = [task EXCEPT ![t] = IdleTask(mcall[t].result)]
            /\ UNCHANGED <<wq, counter, wproofs, incs>>
       ELSE IF ~DleqAccepted(mcall[t].signatures)
       THEN /\ task' = [task EXCEPT ![t] = IdleTask("CouldNotVerifyDleq")]
            /\ UNCHANGED <<wq, counter, wproofs, incs>>
       ELSE LET ks == task[t].premint.keyset_id
                n == Len(task[t].premint.amounts)
                new_count == increment_keyset_counter(counter[ks], n)
            IN
            /\ wq' = [wq EXCEPT ![task[t].quote] = NoQuote]
            /\ counter' = [counter EXCEPT ![ks] = new_count]
            /\ incs' = Append(incs, IncEntry(ks, new_count - n, new_count))
            /\ wproofs' = wproofs \cup construct_proofs(task[t].premint,
                                                        mcall[t].signatures)
            /\ task' = [task EXCEPT ![t] = IdleTask("Ok")]
    /\ mcall' = [mcall EXCEPT ![t] = IdleCall]
    /\ UNCHANGED <<mq, okCount, issuedCount, index, lookupResp, wsecrets, nops, derivs>>
    /\ UNCHANGED <<kvars, transactions>>

\* ------------------------------------------------- wallet: mint_batch
\* Mutant: a batch whose quotes have nothing left to mint passes the checks.
WalletBatchCheck_ZeroTotalPasses(quotes) ==
    IF quotes = <<>> THEN "AmountUndefined"
    ELSE IF \E i \in DOMAIN quotes : wq[quotes[i]].state # "Paid" THEN "UnknownQuote"
    ELSE "Ok"

\* The local checks of mint_batch, in the order of the code.
WalletBatchCheck(quotes) ==
    IF quotes = <<>> THEN "AmountUndefined"
    ELSE IF \E i \in DOMAIN quotes : wq[quotes[i]].state = "Absent" THEN "UnknownQuote"
    ELSE IF \E i \in DOMAIN quotes : wq[quotes[i]].method # wq[quotes[1]].method
         THEN "UnsupportedPaymentMethod"
    ELSE IF \E i \in DOMAIN quotes : wq[quotes[i]].unit # wq[quotes[1]].unit
         THEN "UnsupportedUnit"
    ELSE IF \E i \in DOMAIN quotes : wq[quotes[i]].state # "Paid" THEN "UnknownQuote"
    ELSE IF SumSeq([i \in DOMAIN quotes |-> amount_mintable(wq[quotes[i]])]) = 0
         THEN "AmountUndefined"
    ELSE "Ok"

\* Checks, counter increment, derivation, and the BatchMintRequest posted
\* with signature: None.
WalletBatchSend(t, quotes) ==
    /\ CanStart(t)
    /\ nops' = nops + 1
    /\ IF WalletBatchCheck(quotes) # "Ok"
       THEN /\ task' = [task EXCEPT ![t] = IdleTask(WalletBatchCheck(quotes))]
            /\ UNCHANGED <<mcall, counter, incs, derivs>>
       ELSE LET ks == WalletActiveKeyset
                total == SumSeq([i \in DOMAIN quotes |-> amount_mintable(wq[quotes[i]])])
                num_secrets == Len(Split(total))
                new_counter == increment_keyset_counter(counter[ks], num_secrets)
                count == RangeStart(new_counter, num_secrets)
                premint == from_xpriv(ks, count, total)
            IN
            /\ counter' = [counter EXCEPT ![ks] = new_counter]
            /\ incs' = Append(incs, IncEntry(ks, count, new_counter))
            /\ derivs' = Append(derivs, DerivEntry("mint_batch", premint))
            /\ mcall' = [mcall EXCEPT ![t] =
                  Request("batch", quotes, blinded_messages(premint), FALSE, <<>>)]
            /\ task' = [task EXCEPT ![t] =
                  [Running("batch_wait", "mint_batch", "none")
                      EXCEPT !.count = count, !.premint = premint, !.todo = quotes]]
    /\ UNCHANGED <<mq, okCount, issuedCount, index, lookupResp, wq, wsecrets, wproofs>>
    /\ UNCHANGED <<kvars, transactions>>

\* The response: every quote of the batch is removed, the proofs stored.
WalletBatchReceive(t) ==
    /\ task[t].pc = "batch_wait"
    /\ mcall[t].pc = "done"
    /\ IF mcall[t].result # "Ok"
       THEN /\ task' = [task EXCEPT ![t] = IdleTask(mcall[t].result)]
            /\ UNCHANGED <<wq, wproofs, transactions>>
       ELSE IF ~DleqAccepted(mcall[t].signatures)
       THEN /\ task' = [task EXCEPT ![t] = IdleTask("CouldNotVerifyDleq")]
            /\ UNCHANGED <<wq, wproofs, transactions>>
       ELSE /\ wq' = [k \in WalletIds |->
                  IF k \in Range(task[t].todo) THEN NoQuote ELSE wq[k]]
            /\ wproofs' = wproofs \cup construct_proofs(task[t].premint,
                                                        mcall[t].signatures)
            /\ transactions' = Append(transactions,
                  Transaction(task[t].premint))
            /\ task' = [task EXCEPT ![t] = IdleTask("Ok")]
    /\ mcall' = [mcall EXCEPT ![t] = IdleCall]
    /\ UNCHANGED <<mq, okCount, issuedCount, index, lookupResp, wsecrets,
                   counter, nops, incs, derivs>>
    /\ UNCHANGED kvars

\* PreMintSecrets::with_conditions: one secret per part of the split amount,
\* each a fresh secret carrying the conditions; no counter value is used, so
\* the secrets stand below every counter value.
with_conditions(keyset_id, amount) ==
    [keyset_id |-> keyset_id, count |-> 0 - Pow2(8), amounts |-> Split(amount)]

\* mint_batch with Some(spending_conditions): the checks, the secrets of
\* with_conditions, and the BatchMintRequest posted; the counter is not
\* touched.
WalletBatchSendConditions(t, quotes) ==
    /\ CanStart(t)
    /\ nops' = nops + 1
    /\ IF WalletBatchCheck(quotes) # "Ok"
       THEN /\ task' = [task EXCEPT ![t] = IdleTask(WalletBatchCheck(quotes))]
            /\ UNCHANGED mcall
       ELSE LET total == SumSeq([i \in DOMAIN quotes |-> amount_mintable(wq[quotes[i]])])
                premint == with_conditions(WalletActiveKeyset, total)
            IN
            /\ mcall' = [mcall EXCEPT ![t] =
                  Request("batch", quotes, blinded_messages(premint), FALSE, <<>>)]
            /\ task' = [task EXCEPT ![t] =
                  [Running("batch_wait", "mint_batch", "none")
                      EXCEPT !.count = premint.count, !.premint = premint,
                             !.todo = quotes]]
    /\ UNCHANGED <<mq, okCount, issuedCount, index, lookupResp, wq, wsecrets,
                   wproofs, counter, incs, derivs>>
    /\ UNCHANGED <<kvars, transactions>>

\* --------------------------------------------- wallet: mint_quote_state
\* get_mint_quote_status: the mint answers with the state its record has.
\* Polls are not counted as issuance operations.
PollRequest(t, q) ==
    /\ FirstFree(t)
    /\ task' = [task EXCEPT ![t] =
          IF mq[q].state = "Absent" THEN IdleTask("UnknownQuote")
          ELSE [Running("poll_store", "mint_quote_state", q)
                   EXCEPT !.polled = mq[q].state]]
    /\ UNCHANGED <<mvars, wq, wsecrets, counter, wproofs, nops, incs, derivs>>
    /\ UNCHANGED <<kvars, transactions>>

\* quote.state = response.state when the wallet has the quote.
PollStore(t) ==
    /\ task[t].pc = "poll_store"
    /\ wq' = IF wq[task[t].quote].state = "Absent" THEN wq
             ELSE [wq EXCEPT ![task[t].quote].state = task[t].polled]
    /\ task' = [task EXCEPT ![t] = IdleTask("Ok")]
    /\ UNCHANGED <<mvars, wsecrets, counter, wproofs, nops, incs, derivs>>
    /\ UNCHANGED <<kvars, transactions>>

\* ------------------------------------------------- wallet: mint_quote
\* The local quote built from the mint's answer to a lightning quote request.
LightningQuote(amount, unit, state, sk) ==
    [state |-> state, method |-> "Bolt11", amount |-> amount,
     amount_paid |-> 0, amount_issued |-> 0, secret_key |-> sk, expiry |-> 0,
     unit |-> unit]

\* post_mint_quote with the public key of a fresh secret key, then
\* add_mint_quote with the state of the response and the unit of the wallet
\* that was called.
mint_quote(t, unit, q, amount, sk) ==
    /\ FirstFree(t)
    /\ MintCreateQuote(q, "Bolt11", amount, PubKey(sk))
    /\ wq' = [wq EXCEPT ![q] =
          [LightningQuote(amount, unit, mq'[q].state, sk)
              EXCEPT !.expiry = mq'[q].expiry]]
    /\ task' = [task EXCEPT ![t] = IdleTask("Ok")]
    /\ UNCHANGED <<mcall, okCount, issuedCount, lookupResp, wsecrets, counter,
                   wproofs, nops, incs, derivs>>
    /\ UNCHANGED <<kvars, transactions>>

\* ------------------------------------ wallet: check_all_mint_quotes
\* The readings of unix_time() during check_all_mint_quotes: before and at
\* the expiry the mint gives a lightning quote.
WalletTimes == {MintNow, MintNow + QuoteTtl}

\* The orders localstore.get_mint_quotes may list a set of ids in.
Listings(ids) ==
    {order \in [1..Cardinality(ids) -> ids] : Range(order) = ids}

\* let mint_quotes = self.localstore.get_mint_quotes(): the loop runs over
\* the records as they were read.
CheckAllBegin(t, order) ==
    /\ CanStart(t)
    /\ nops' = nops + 1
    /\ task' = [task EXCEPT ![t] =
          [Running("check_poll", "check_all_mint_quotes", "none")
              EXCEPT !.todo = [i \in DOMAIN order |->
                                  [id |-> order[i], expiry |-> wq[order[i]].expiry]]]]
    /\ UNCHANGED <<mvars, wq, wsecrets, counter, wproofs, incs, derivs>>
    /\ UNCHANGED <<kvars, transactions>>

\* mint_quote_state(&mint_quote.id): the status request; an id the mint
\* does not have is an error that ends the loop.
CheckAllPoll(t) ==
    /\ task[t].pc = "check_poll"
    /\ task' = [task EXCEPT ![t] =
          IF task[t].todo = <<>> THEN IdleTask("Ok")
          ELSE LET id == Head(task[t].todo).id IN
               IF id \notin QuoteIds \/ mq[id].state = "Absent"
               THEN IdleTask("UnknownQuote")
               ELSE [task[t] EXCEPT !.pc = "check_store", !.quote = id,
                                    !.polled = mq[id].state]]
    /\ UNCHANGED <<mvars, wq, wsecrets, counter, wproofs, nops, incs, derivs>>
    /\ UNCHANGED <<kvars, transactions>>

\* The local state is set to the response's; a Paid quote goes on to mint,
\* any other quote with expiry <= unix_time() is removed.
CheckAllStore(t, now) ==
    /\ task[t].pc = "check_store"
    /\ LET id == task[t].quote
           stored == IF wq[id].state = "Absent" THEN wq
                     ELSE [wq EXCEPT ![id].state = task[t].polled]
       IN
       IF task[t].polled = "Paid"
       THEN /\ wq' = stored
            /\ task' = [task EXCEPT ![t].pc = "check_mint"]
       ELSE /\ wq' = IF Head(task[t].todo).expiry <= now
                     THEN [stored EXCEPT ![id] = NoQuote] ELSE stored
            /\ task' = [task EXCEPT ![t].pc = "check_poll",
                                    ![t].todo = Tail(task[t].todo)]
    /\ UNCHANGED <<mvars, wsecrets, counter, wproofs, nops, incs, derivs>>
    /\ UNCHANGED <<kvars, transactions>>

\* self.mint(&mint_quote.id, ..): the request of Wallet::mint.
CheckAllMintSend(t) ==
    /\ task[t].pc = "check_mint"
    /\ LET q == task[t].quote IN
       IF wq[q].state = "Absent"
       THEN /\ task' = [task EXCEPT ![t] = IdleTask("UnknownQuote")]
            /\ UNCHANGED <<mcall, derivs>>
       ELSE LET ks == WalletActiveKeyset
                count == NextCount(counter[ks])
                premint == from_xpriv(ks, count, wq[q].amount)
                key == wq[q].secret_key
            IN
            /\ derivs' = Append(derivs, DerivEntry("mint", premint))
            /\ mcall' = [mcall EXCEPT ![t] =
                  Request("issue", <<q>>, blinded_messages(premint), key # NoKey,
                          <<IF key # NoKey THEN Sign(key, q) ELSE NoSig>>)]
            /\ task' = [task EXCEPT ![t].pc = "check_mint_wait",
                                    ![t].count = count, ![t].premint = premint]
    /\ UNCHANGED <<mq, okCount, issuedCount, index, lookupResp, wq,
                   wsecrets, counter, wproofs, nops, incs>>
    /\ UNCHANGED <<kvars, transactions>>

\* The response of that mint: an error ends check_all_mint_quotes, a success
\* removes the quote, stores the proofs and goes on with the next quote.
CheckAllMintReceive(t) ==
    /\ task[t].pc = "check_mint_wait"
    /\ mcall[t].pc = "done"
    /\ IF mcall[t].result # "Ok"
       THEN /\ task' = [task EXCEPT ![t] = IdleTask(mcall[t].result)]
            /\ UNCHANGED <<wq, counter, wproofs, incs, transactions>>
       ELSE IF ~DleqAccepted(mcall[t].signatures)
       THEN /\ task' = [task EXCEPT ![t] = IdleTask("CouldNotVerifyDleq")]
            /\ UNCHANGED <<wq, counter, wproofs, incs, transactions>>
       ELSE LET ks == task[t].premint.keyset_id
                proofs == construct_proofs(task[t].premint, mcall[t].signatures)
                n == Len(task[t].premint.amounts)
                new_count == increment_keyset_counter(counter[ks], n)
            IN
            /\ wq' = [wq EXCEPT ![task[t].quote] = NoQuote]
            /\ counter' = [counter EXCEPT ![ks] = new_count]
            /\ incs' = Append(incs, IncEntry(ks, new_count - n, new_count))
            /\ wproofs' = wproofs \cup proofs
            /\ transactions' = Append(transactions,
                  Transaction(task[t].premint))
            /\ task' = [task EXCEPT ![t].pc = "check_poll",
                                    ![t].todo = Tail(task[t].todo)]
    /\ mcall' = [mcall EXCEPT ![t] = IdleCall]
    /\ UNCHANGED <<mq, okCount, issuedCount, index, lookupResp, wsecrets, nops, derivs>>
    /\ UNCHANGED kvars

\* ------------------------------------------- wallet: the active keyset
\* struct KeySetInfo
KeySetInfo(id, is_active, unit, input_fee_ppk) ==
    [id |-> id, active |-> is_active, unit |-> unit, input_fee_ppk |-> input_fee_ppk]

\* add_keyset: the KeySetInfo of the keys, with the unit of the wallet that
\* was called, goes to the store; the store keeps one record per keyset id.
add_keyset(id, is_active, unit, input_fee_ppk) ==
    /\ wkeysets' = {k \in wkeysets : k.id # id}
                      \cup {KeySetInfo(id, is_active, unit, input_fee_ppk)}
    /\ UNCHANGED <<mvars, wq, wsecrets, counter, wproofs, task, nops, incs,
                   derivs, active, mactive, transactions>>

\* The stored records in the order `order` gives their ids.
InOrder(order) ==
    LET ids == SelectSeq(order, LAMBDA id : \E k \in wkeysets : k.id = id)
    IN [i \in DOMAIN ids |-> CHOOSE k \in wkeysets : k.id = ids[i]]

\* Iterator::min_by_key(|key| key.input_fee_ppk): of several elements that
\* are equally minimal the first one is returned.
RECURSIVE min_by_key(_)
min_by_key(s) ==
    IF Len(s) = 1 THEN s[1]
    ELSE LET rest == min_by_key(Tail(s))
         IN IF rest.input_fee_ppk < Head(s).input_fee_ppk THEN rest ELSE Head(s)

\* filter(|k| k.active && k.unit == self.unit), min_by_key, ok_or.
keyset_with_lowest_fee(keysets) ==
    LET active_keysets ==
            SelectSeq(keysets, LAMBDA k : k.active /\ k.unit = WalletUnit)
    IN IF active_keysets = <<>> THEN "NoActiveKeyset"
       ELSE min_by_key(active_keysets).id

\* get_active_mint_keyset_local and get_active_mint_keyset: the selection
\* over the keysets in the order the store or the mint lists them.
get_active_mint_keyset(order) ==
    /\ active' = keyset_with_lowest_fee(InOrder(order))
    /\ UNCHANGED <<mvars, wq, wsecrets, counter, wproofs, task, nops, incs,
                   derivs, wkeysets, mactive, transactions>>

\* ------------------------------------------------ the wallet and its mint
\* The pool has the mint create the quote of a share, Paid at creation: q1
\* without a locking pubkey, q2 locked to P1.
LockOf(q) == IF q = "q1" THEN NoKey ELSE "P1"

PoolCreateQuote ==
    /\ \E q \in QuoteIds : MintCreateQuote(q, "MiningShare", AmountOf(q), LockOf(q))
    /\ UNCHANGED <<mcall, okCount, issuedCount, lookupResp>>
    /\ UNCHANGED wvars

WalletQuote ==
    \E t \in Tasks, q \in QuoteIds :
        \E amount \in {0, AmountOf(q)} : MiningShareQuoteBegin(t, amount, q)
WalletQuoteStore == \E t \in Tasks : MiningShareQuoteStore(t)
WalletShare == \E t \in Tasks, q \in QuoteIds : MintMiningShareSend(t, q)
WalletShareDone == \E t \in Tasks : MintMiningShareReceive(t)
WalletTokens ==
    \E t \in Tasks, key \in {NoKey, "sk1"} : TokensLookup(t, "P1", key)
WalletTokensDerive == \E t \in Tasks : TokensDerive(t)
WalletTokensSend == \E t \in Tasks : TokensSend(t)
WalletTokensDone == \E t \in Tasks : TokensReceive(t)
WalletMint == \E t \in Tasks, q \in QuoteIds : MintSend(t, q)
WalletMintDone == \E t \in Tasks : MintReceive(t)
WalletPremint == \E t \in Tasks, q \in QuoteIds : PremintCheck(t, AmountOf(q), q)
WalletPremintStore == \E t \in Tasks : PremintStore(t)
WalletShareProofs ==
    \E t \in Tasks, q \in QuoteIds :
        \E share_hash \in {q, HashOf(q)} : ShareProofsSend(t, q, share_hash)
WalletShareProofsDone == \E t \in Tasks : ShareProofsReceive(t)
WalletBatches == {<<>>, <<"q1">>, <<"q1", "q2">>, <<"q1", "q1">>}
WalletBatch == \E t \in Tasks, quotes \in WalletBatches : WalletBatchSend(t, quotes)
WalletBatchDone == \E t \in Tasks : WalletBatchReceive(t)
WalletPoll == \E t \in Tasks, q \in QuoteIds : PollRequest(t, q)
WalletPollStore == \E t \in Tasks : PollStore(t)

NextWallet ==
    \/ PoolCreateQuote
    \/ IssueBegin
    \/ IssueFinish
    \/ IssueFail
    \/ BatchBegin
    \/ BatchFinish
    \/ BatchFail
    \/ WalletQuote
    \/ WalletQuoteStore
    \/ WalletShare
    \/ WalletShareDone
    \/ WalletTokens
    \/ WalletTokensDerive
    \/ WalletTokensSend
    \/ WalletTokensDone
    \/ WalletMint
    \/ WalletMintDone
    \/ WalletPremint
    \/ WalletPremintStore
    \/ WalletShareProofs
    \/ WalletShareProofsDone
    \/ WalletBatch
    \/ WalletBatchDone

SpecWallet == Init /\ [][NextWallet]_vars

\* The wallet creating its quotes, polling them and redeeming them.
NextPoll ==
    \/ PoolCreateQuote
    \/ IssueBegin
    \/ IssueFinish
    \/ IssueFail
    \/ WalletQuote
    \/ WalletQuoteStore
    \/ WalletShare
    \/ WalletShareDone
    \/ WalletPoll
    \/ WalletPollStore
    \/ WalletPremint
    \/ WalletPremintStore

SpecPoll == Init /\ [][NextPoll]_vars

\* The header hashes and amounts the wallet's quote operations are called
\* with: a nonzero hash and the zero hash, amounts in and out of
\* 1..MaxShareAmount.
HeaderHashes == {"q2", ZeroHash}
ShareAmounts == {0, MaxAmount, MaxShareAmount, MaxShareAmount + 1}

ShareQuoteAny ==
    \E t \in Tasks, header_hash \in HeaderHashes, amount \in ShareAmounts :
        MiningShareQuoteBegin(t, amount, header_hash)
ShareQuoteGet ==
    \E t \in Tasks, header_hash \in {HashOf("q1"), ZeroHash} :
        \E amount \in {0, MaxShareAmount + 1} : GetShareQuote(t, amount, header_hash)
PremintAny ==
    \E t \in Tasks, q \in QuoteIds :
        \E amount \in {0, AmountOf(q)} : PremintCheck(t, amount, q)

\* The wallet operations that put mining-share quotes into the store.
NextShare ==
    \/ ShareQuoteAny
    \/ WalletQuoteStore
    \/ ShareQuoteGet
    \/ PremintAny
    \/ WalletPremintStore

SpecShare == Init /\ [][NextShare]_vars

\* A list of one more quote id than the mint accepts in a batch.
Oversized(q) == [i \in 1..(BatchLimit + 1) |-> q]

\* The lists mint_batch is called with: empty, single, two quotes in both
\* orders, one quote twice, and oversized.
BatchLists ==
    WalletBatches \cup {<<"q2", "q1">>} \cup {Oversized(q) : q \in QuoteIds}

\* mint_quote of the wallet or of a wallet of another unit on the same
\* store.  The id the mint gives a new quote is new to the store too.
WalletLightningQuote ==
    \E t \in Tasks, unit \in Units, q \in QuoteIds, sk \in SecretKeys :
        wq[q].state = "Absent" /\ mint_quote(t, unit, q, AmountOf(q), sk)
WalletBatchAny == \E t \in Tasks, quotes \in BatchLists : WalletBatchSend(t, quotes)
WalletGetQuote ==
    \E t \in Tasks, q \in QuoteIds : GetShareQuote(t, AmountOf(q), q)

\* The wallet filling its store with quotes of both payment methods and
\* redeeming them in batches.
NextBatch ==
    \/ PoolCreateQuote
    \/ WalletQuote
    \/ WalletQuoteStore
    \/ WalletLightningQuote
    \/ WalletGetQuote
    \/ WalletBatchAny
    \/ WalletBatchDone
    \/ BatchBegin
    \/ BatchFinish
    \/ BatchFail

SpecBatch == Init /\ [][NextBatch]_vars

\* The same wallet redeeming in batches of at most two quotes.
NextBatchCheck ==
    \/ PoolCreateQuote
    \/ WalletQuote
    \/ WalletQuoteStore
    \/ WalletLightningQuote
    \/ WalletGetQuote
    \/ WalletBatch
    \/ WalletBatchDone
    \/ BatchBegin
    \/ BatchFinish
    \/ BatchFail

SpecBatchCheck == Init /\ [][NextBatchCheck]_vars

\* Quotes of both payment methods locked to P1.
OwnedCreateQuote ==
    /\ \E q \in QuoteIds, method \in {"Bolt11", "MiningShare"} :
          MintCreateQuote(q, method, AmountOf(q), "P1")
    /\ UNCHANGED <<mcall, okCount, issuedCount, lookupResp>>
    /\ UNCHANGED wvars

WalletTokensError == \E t \in Tasks : TokensDeriveError(t)

\* mint_tokens_for_pubkey over quotes of both payment methods, with a store
\* that may fail.
NextTokens ==
    \/ OwnedCreateQuote
    \/ PayQuote
    \/ IssueBegin
    \/ IssueFinish
    \/ IssueFail
    \/ WalletTokens
    \/ WalletTokensDerive
    \/ WalletTokensError
    \/ WalletTokensSend
    \/ WalletTokensDone

SpecTokens == Init /\ [][NextTokens]_vars

\* The DLEQ proof of one signature of a response, as the wallet will find it:
\* left out by the mint, or not verifying against the amount's key.
ResponseDleq ==
    /\ \E t \in Tasks :
          /\ mcall[t].pc = "done"
          /\ mcall[t].result = "Ok"
          /\ \A i \in DOMAIN mcall[t].signatures :
                mcall[t].signatures[i].dleq = "Valid"
          /\ \E i \in DOMAIN mcall[t].signatures :
                \E r \in DleqResults \ {"Valid"} :
                   mcall' = [mcall EXCEPT ![t].signatures[i].dleq = r]
    /\ UNCHANGED <<mq, okCount, issuedCount, index, lookupResp>>
    /\ UNCHANGED wvars

\* The wallet redeeming its quotes one by one and in batches, with responses
\* whose DLEQ proofs may be missing or invalid.
NextDleq ==
    \/ PoolCreateQuote
    \/ IssueBegin
    \/ IssueFinish
    \/ IssueFail
    \/ BatchBegin
    \/ BatchFinish
    \/ BatchFail
    \/ ResponseDleq
    \/ WalletQuote
    \/ WalletQuoteStore
    \/ WalletShare
    \/ WalletShareDone
    \/ WalletBatch
    \/ WalletBatchDone

SpecDleq == Init /\ [][NextDleq]_vars

\* The fees of the keysets, and the orders a list of keysets may come in.
Fees == {0, 1}
KeysetOrders == {<<"ks1", "ks2">>, <<"ks2", "ks1">>}

\* add_keyset of the wallet or of a wallet of another unit on the same store.
AddKeyset ==
    \E id \in KeysetIds, is_active \in BOOLEAN, unit \in Units, fee \in Fees :
        add_keyset(id, is_active, unit, fee)
GetActiveKeyset == \E order \in KeysetOrders : get_active_mint_keyset(order)

\* The keyset store and the selection of the active keyset.
NextKeysets ==
    \/ AddKeyset
    \/ GetActiveKeyset

SpecKeysets == Init /\ [][NextKeysets]_vars

\* ------------------------------------------------ keyset rotation
\* The mint retires its active keyset and activates the next one; the wallet
\* learns of it with the keysets it fetches.
RotateKeyset ==
    /\ mactive = "ks1"
    /\ mactive' = "ks2"
    /\ UNCHANGED <<mvars, wq, wsecrets, counter, wproofs, task, nops, incs,
                   derivs, wkeysets, active, transactions>>

\* Quotes created and redeemed while the active keyset may change.
NextRotate ==
    \/ PoolCreateQuote
    \/ RotateKeyset
    \/ IssueBegin
    \/ IssueFinish
    \/ IssueFail
    \/ WalletQuote
    \/ WalletQuoteStore
    \/ WalletShare
    \/ WalletShareDone
    \/ WalletTokens
    \/ WalletTokensDerive
    \/ WalletTokensSend
    \/ WalletTokensDone
    \/ WalletMint
    \/ WalletMintDone
    \/ WalletPremint
    \/ WalletPremintStore
    \/ WalletShareProofs
    \/ WalletShareProofsDone

SpecRotate == Init /\ [][NextRotate]_vars

\* ------------------------------------------------- sums of amounts
\* The width of an Amount in bits, scaled down from the 64 bits of u64; an
\* Amount holds the values 0 .. AmountLimit - 1.
AmountBits == 4
AmountLimit == Pow2(AmountBits)

\* Amount::try_sum(..).map_err(|_| Error::AmountOverflow): checked addition
\* from zero, an error at the first sum that does not fit.
RECURSIVE try_sum(_, _)
try_sum(acc, amounts) ==
    IF amounts = <<>> THEN [result |-> "Ok", amount |-> acc]
    ELSE IF acc + Head(amounts) >= AmountLimit
         THEN [result |-> "AmountOverflow", amount |-> 0]
    ELSE try_sum(acc + Head(amounts), Tail(amounts))

\* total_amount += quote_info.amount_mintable(): the operator returns no
\* Result, so a sum that does not fit either aborts the task with a panic
\* (checked addition) or wraps (plain addition of a release build).
RECURSIVE add_assign(_, _)
add_assign(acc, amounts) ==
    IF amounts = <<>> THEN {[result |-> "Ok", amount |-> acc]}
    ELSE IF acc + Head(amounts) >= AmountLimit
         THEN {[result |-> "panic", amount |-> 0]}
                 \cup add_assign((acc + Head(amounts)) % AmountLimit, Tail(amounts))
    ELSE add_assign(acc + Head(amounts), Tail(amounts))

\* The amounts summed: small ones, half the range and the largest value.
SumAmounts == {1, AmountLimit \div 2, AmountLimit - 1}
SumLists ==
    {<<>>} \cup {<<a>> : a \in SumAmounts}
           \cup {<<a, b>> : a, b \in SumAmounts}
           \cup {<<a, b, c>> : a, b, c \in SumAmounts}

\* A request with any of the lists as its outputs has reached the mint, and
\* the wallet holds two Paid quotes of any of the amounts.
InitSum ==
    /\ mq = [q \in QuoteIds |-> AbsentQuote]
    /\ \E amounts \in SumLists :
          mcall = [c \in Callers |->
              IF c = "c1"
              THEN Request("issue", <<"q1">>, Outputs(amounts, "ks1", 0), FALSE,
                           <<NoSig>>)
              ELSE IdleCall]
    /\ okCount = [q \in QuoteIds |-> 0]
    /\ issuedCount = [q \in QuoteIds |-> 0]
    /\ \E a1, a2 \in SumAmounts :
          wq = [k \in WalletIds |->
              IF k = "q1" THEN MiningShareQuote(a1)
              ELSE IF k = "q2" THEN MiningShareQuote(a2)
              ELSE NoQuote]
    /\ wsecrets = [k \in WalletIds |-> NoPremint]
    /\ counter = [k \in KeysetIds |-> NoCounter]
    /\ wproofs = {}
    /\ task = [t \in Tasks |-> IdleTask("none")]
    /\ nops = 0
    /\ incs = <<>>
    /\ derivs = <<>>
    /\ index = [p \in LockKeys |-> {}]
    /\ lookupResp = NoLookup
    /\ wkeysets = {}
    /\ active = "none"
    /\ mactive = "ks1"
    /\ transactions = <<>>

\* MintMiningShareRequest::total_amount applied to the request of caller c;
\* task t holds what it returned.
RequestTotal(c, t) ==
    /\ mcall[c].pc = "sent"
    /\ task[t].pc = "idle"
    /\ LET r == try_sum(0, [i \in DOMAIN mcall[c].outputs |->
                                mcall[c].outputs[i].amount])
       IN task' = [task EXCEPT ![t] =
              [Running("summed", "total_amount", "none")
                  EXCEPT !.amount = r.amount, !.result = r.result]]
    /\ UNCHANGED <<mvars, wq, wsecrets, counter, wproofs, nops, incs, derivs>>
    /\ UNCHANGED <<kvars, transactions>>

\* The total of mint_batch over the mintable amounts of the quotes.
BatchTotal(t, quotes) ==
    /\ task[t].pc = "idle"
    /\ \E r \in add_assign(0, [i \in DOMAIN quotes |->
                                   amount_mintable(wq[quotes[i]])]) :
          task' = [task EXCEPT ![t] =
              [Running("summed", "mint_batch", "none")
                  EXCEPT !.amount = r.amount, !.result = r.result,
                         !.todo = quotes]]
    /\ UNCHANGED <<mvars, wq, wsecrets, counter, wproofs, nops, incs, derivs>>
    /\ UNCHANGED <<kvars, transactions>>

SumRequest == \E c \in Clients, t \in Tasks : RequestTotal(c, t)
SumBatch ==
    \E t \in Tasks, quotes \in {<<"q1">>, <<"q1", "q2">>, <<"q2", "q1", "q2">>} :
        BatchTotal(t, quotes)

NextSum ==
    \/ SumRequest
    \/ SumBatch

SpecSum == InitSum /\ [][NextSum]_vars

\* ------------------------------------------ the counter reservations
WalletBatchConditions ==
    \E t \in Tasks, quotes \in WalletBatches : WalletBatchSendConditions(t, quotes)

\* The operations that reserve counter values and derive secrets from them,
\* and mint_batch with spending conditions, up to their requests.
NextCounters ==
    \/ PoolCreateQuote
    \/ WalletQuote
    \/ WalletQuoteStore
    \/ WalletTokens
    \/ WalletTokensDerive
    \/ WalletTokensSend
    \/ WalletBatch
    \/ WalletBatchConditions

SpecCounters == Init /\ [][NextCounters]_vars

\* ------------------------------------------ BatchMintRequest as JSON
\* A JSON document: the members of an object in the order written, each a
\* name and a value; an array carries its values in order, a string its
\* text, and null is a value of its own.
JsonNull == [type |-> "null"]
JsonString(text) == [type |-> "string", text |-> text]
JsonArray(items) == [type |-> "array", items |-> items]
Member(name, value) == [name |-> name, value |-> value]

\* Mutant: the nulls of the signature array are not written.
to_json_NullsSkipped(req) ==
    <<Member("quote", JsonArray([i \in DOMAIN req.quotes |-> JsonString(req.quotes[i])])),
      Member("outputs", JsonArray(req.outputs))>>
    \o (IF req.sigPresent
        THEN LET some == SelectSeq(req.sigs, LAMBDA sig : sig # NoSig)
             IN <<Member("signature",
                         JsonArray([i \in DOMAIN some |-> JsonString(some[i])]))>>
        ELSE <<>>)

\* Serialize for BatchMintRequest: quote and outputs always, signature only
\* when it is Some, its None elements as null.
to_json(req) ==
    <<Member("quote", JsonArray([i \in DOMAIN req.quotes |-> JsonString(req.quotes[i])])),
      Member("outputs", JsonArray(req.outputs))>>
    \o (IF req.sigPresent
        THEN <<Member("signature",
                      JsonArray([i \in DOMAIN req.sigs |->
                                    IF req.sigs[i] = NoSig THEN JsonNull
                                    ELSE JsonString(req.sigs[i])]))>>
        ELSE <<>>)

\* The values of the members of a document that have the name.
ValuesOf(json, name) ==
    LET members == SelectSeq(json, LAMBDA m : m.name = name)
    IN [i \in DOMAIN members |-> members[i].value]

\* Deserialize for BatchMintRequest: a document without the member
\* signature, or with null for it, gives None; an array gives Some with
\* None for every null.
from_json(json) ==
    LET quote == ValuesOf(json, "quote")[1].items
        signature == ValuesOf(json, "signature")
        none == signature = <<>> \/ signature[1].type = "null"
    IN Request("batch",
               [i \in DOMAIN quote |-> quote[i].text],
               ValuesOf(json, "outputs")[1].items,
               ~none,
               IF none THEN <<>>
               ELSE [i \in DOMAIN signature[1].items |->
                        IF signature[1].items[i].type = "null" THEN NoSig
                        ELSE signature[1].items[i].text])

\* The requests encoded: up to two quote ids, also a repeated one, and a
\* signature field that is absent or holds up to three entries.
JsonQuoteLists ==
    {<<>>} \cup {<<q>> : q \in QuoteIds} \cup {<<p, q>> : p, q \in QuoteIds}
JsonSigs == {NoSig, Sign("sk1", "q1"), Sign("sk2", "q2")}
JsonSigLists ==
    {<<>>} \cup {<<a>> : a \in JsonSigs} \cup {<<a, b>> : a, b \in JsonSigs}
           \cup {<<a, b, c>> : a, b, c \in JsonSigs}
JsonRequests ==
    {Request("batch", quotes, <<>>, FALSE, <<>>) : quotes \in JsonQuoteLists}
        \cup {Request("batch", quotes, <<>>, TRUE, sigs) :
                  quotes \in JsonQuoteLists, sigs \in JsonSigLists}

\* Client c1 has built one of the requests.
InitJson ==
    /\ mq = [q \in QuoteIds |-> AbsentQuote]
    /\ \E req \in JsonRequests :
          mcall = [c \in Callers |->
              IF c = "c1" THEN [req EXCEPT !.pc = "built"] ELSE IdleCall]
    /\ okCount = [q \in QuoteIds |-> 0]
    /\ issuedCount = [q \in QuoteIds |-> 0]
    /\ wq = [k \in WalletIds |-> NoQuote]
    /\ wsecrets = [k \in WalletIds |-> NoPremint]
    /\ counter = [k \in KeysetIds |-> NoCounter]
    /\ wproofs = {}
    /\ task = [t \in Tasks |-> IdleTask("none")]
    /\ nops = 0
    /\ incs = <<>>
    /\ derivs = <<>>
    /\ index = [p \in LockKeys |-> {}]
    /\ lookupResp = NoLookup
    /\ wkeysets = {}
    /\ active = "none"
    /\ mactive = "ks1"
    /\ transactions = <<>>

\* serde_json::to_string: the request of caller c goes on the wire; the
\* caller keeps what it built.
JsonEncode(c) ==
    /\ mcall[c].pc = "built"
    /\ mcall' = [mcall EXCEPT ![c] =
          [pc |-> "wire", json |-> to_json(mcall[c]),
           built |-> [mcall[c] EXCEPT !.pc = "sent"]]]
    /\ UNCHANGED <<mq, okCount, issuedCount, index, lookupResp>>
    /\ UNCHANGED wvars

\* serde_json::from_str: the document is decoded into the request that
\* reaches the mint.
JsonDecode(c) ==
    /\ mcall[c].pc = "wire"
    /\ mcall' = [mcall EXCEPT ![c] = from_json(mcall[c].json)]
    /\ UNCHANGED <<mq, okCount, issuedCount, index, lookupResp>>
    /\ UNCHANGED wvars

Encode == \E c \in Clients : JsonEncode(c)
Decode == \E c \in Clients : JsonDecode(c)

NextJson ==
    \/ Encode
    \/ Decode

SpecJson == InitJson /\ [][NextJson]_vars

\* ---------------------------------------- the issue pipeline's requests
\* A quote created some time before the requests are served: a lightning
\* quote created a full lifetime ago has reached its expiry.
QuoteAges == {0, QuoteTtl}

CreateAgedQuote ==
    /\ \E q \in QuoteIds, method \in {"Bolt11", "MiningShare"},
          pubkey \in {NoKey, "P1"}, age \in QuoteAges :
          /\ mq[q].state = "Absent"
          /\ mq' = [mq EXCEPT ![q] =
                [NewMintQuote(method, AmountOf(q), pubkey)
                    EXCEPT !.expiry = IF @ = 0 THEN 0 ELSE @ - age]]
          /\ index' = IndexAdd(index, pubkey, q)
    /\ UNCHANGED <<mcall, okCount, issuedCount, lookupResp>>
    /\ UNCHANGED wvars

\* The outputs of the pipeline's requests: those of RawOutputs, more
\* outputs than the cap that sum to the largest amount, and more outputs
\* than the cap of the inactive keyset and of an amount no keyset has, and
\* one output of a keyset the mint does not have.
ManyOutputs ==
    RawOutputs
        \cup {Outputs([i \in 1..MaxAmount |-> 1], MintActiveKeyset, 0),
              Outputs([i \in 1..(OutputCap + 1) |-> 3], "ks2", 0),
              Outputs(Split(1), "ks0", 0)}

\* One client sends a MintRequest with any of these outputs.
ClientIssueAny ==
    /\ WireFree
    /\ \E quote \in QuoteIds, outputs \in ManyOutputs :
          \E sig \in {NoSig, Sign("sk1", quote)} :
             /\ mcall["c1"].pc \in {"idle", "done"}
             /\ mcall' = [mcall EXCEPT !["c1"] =
                   Request("issue", <<quote>>, outputs, sig # NoSig, <<sig>>)]
    /\ UNCHANGED <<mq, okCount, issuedCount, index, lookupResp>>
    /\ UNCHANGED wvars

NextIssue ==
    \/ CreateAgedQuote
    \/ PayQuote
    \/ ClientIssueAny
    \/ IssueBegin
    \/ IssueFinish
    \/ IssueFail

SpecIssue == Init /\ [][NextIssue]_vars

\* ------------------------------------ the wallet storing share quotes
WalletQuoteStoreError == \E t \in Tasks : MiningShareQuoteStoreError(t)

\* mint_mining_share_quote on a store whose second write may fail.
NextQuoteStore ==
    \/ WalletQuote
    \/ WalletQuoteStore
    \/ WalletQuoteStoreError

SpecQuoteStore == Init /\ [][NextQuoteStore]_vars

\* ------------------------------------------- the wallet checking its quotes
WalletCheckAll ==
    \E t \in Tasks :
        \E order \in Listings({k \in WalletIds : wq[k].state # "Absent"}) :
            CheckAllBegin(t, order)
WalletCheckAllPoll == \E t \in Tasks : CheckAllPoll(t)
WalletCheckAllStore == \E t \in Tasks, now \in WalletTimes : CheckAllStore(t, now)
WalletCheckAllMint == \E t \in Tasks : CheckAllMintSend(t)
WalletCheckAllMintDone == \E t \in Tasks : CheckAllMintReceive(t)

\* mint_quote of the wallet's unit.
WalletOwnLightningQuote ==
    \E t \in Tasks, q \in QuoteIds :
        wq[q].state = "Absent" /\ mint_quote(t, WalletUnit, q, AmountOf(q), "sk1")

\* The wallet with mining-share and lightning quotes checking all its
\* quotes.
NextExpiry ==
    \/ PoolCreateQuote
    \/ PayQuote
    \/ IssueBegin
    \/ IssueFinish
    \/ IssueFail
    \/ WalletQuote
    \/ WalletQuoteStore
    \/ WalletOwnLightningQuote
    \/ WalletCheckAll
    \/ WalletCheckAllPoll
    \/ WalletCheckAllStore
    \/ WalletCheckAllMint
    \/ WalletCheckAllMintDone

SpecExpiry == Init /\ [][NextExpiry]_vars

\* ------------------------------------- the Pending lease (spec.md 4.4, 5)
\* A crash or cancellation mid-issuance: the call is lost, the quote stays
\* Pending.
MintIssueCrash(c) ==
    /\ mcall[c].pc = "pending"
    /\ mcall[c].kind = "issue"
    /\ mcall' = [mcall EXCEPT ![c] = Returned(mcall[c], "Cancelled", <<>>)]
    /\ UNCHANGED <<mq, okCount, issuedCount, index, lookupResp>>

\* A Pending quote no call holds the lease of.
Stuck(q) ==
    /\ mq[q].state = "Pending"
    /\ \A c \in Callers :
          ~(mcall[c].pc = "pending" /\ q \in Range(mcall[c].quotes))

\* Recovery after a crash: every stuck quote without a persisted signature
\* is promoted back to Paid.
MintRecover ==
    /\ \E q \in QuoteIds : Stuck(q) /\ mq[q].amount_issued = 0
    /\ mq' = ReleasePending({q \in QuoteIds : Stuck(q) /\ mq[q].amount_issued = 0}, mq)
    /\ UNCHANGED <<mcall, okCount, issuedCount, index, lookupResp>>

\* The timeout reaper: the lease of one stuck quote runs out.
MintReap(q) ==
    /\ Stuck(q)
    /\ mq' = ReleasePending({q}, mq)
    /\ UNCHANGED <<mcall, okCount, issuedCount, index, lookupResp>>

IssueCrash ==
    /\ \E c \in Callers : MintIssueCrash(c)
    /\ UNCHANGED wvars

Recover ==
    /\ MintRecover
    /\ UNCHANGED wvars

Reap ==
    /\ \E q \in QuoteIds : MintReap(q)
    /\ UNCHANGED wvars

NextLease ==
    \/ PoolCreateQuote
    \/ ClientIssue
    \/ IssueBegin
    \/ IssueFinish
    \/ IssueFail
    \/ IssueCrash
    \/ Recover
    \/ Reap

\* Issuance that has begun ends, recovery runs after a crash, and the
\* reaper keeps running.
SpecLease ==
    /\ Init
    /\ [][NextLease]_vars
    /\ WF_vars(IssueFinish \/ IssueFail)
    /\ WF_vars(Recover)
    /\ WF_vars(Reap)

\* ------------------------------------------------------------------ claims
IssueCalls == {c \in Callers : mcall[c].kind = "issue"}
BatchCalls == {c \in Callers : mcall[c].kind = "batch"}

Rank(state) ==
    CASE state = "Absent" -> 0
      [] state = "Unpaid" -> 1
      [] state = "Paid" -> 2
      [] state = "Pending" -> 3
      [] state = "Issued" -> 4

\* The step in which task t stores the state a poll returned.
PollStep(t) == task[t].pc = "poll_store" /\ task'[t].pc = "idle"

\* C2 as stated, for the wallet's record: no poll moves the local record of a
\* quote out of Issued.
C2_PolledIssuedIsFinal ==
    [][\A t \in Tasks :
          PollStep(t) /\ wq[task[t].quote].state = "Issued"
             => wq'[task[t].quote].state = "Issued"]_vars

\* C2 as stated, for the mint's record: the state only moves forward along
\* Unpaid -> Paid -> Pending -> Issued, Pending is entered only from Paid,
\* nothing leaves Issued.
C2_OnlyForward ==
    [][\A q \in QuoteIds :
          /\ Rank(mq'[q].state) >= Rank(mq[q].state)
          /\ (mq'[q].state = "Pending" /\ mq[q].state # "Pending"
                => mq[q].state = "Paid")
          /\ (mq[q].state = "Issued" => mq'[q].state = "Issued")]_vars

ForwardSteps ==
    { <<"Absent", "Unpaid">>, <<"Absent", "Paid">>, <<"Unpaid", "Paid">>,
      <<"Paid", "Pending">>, <<"Pending", "Issued">> }

\* C2, the mint's record: it changes state only by a forward step
\* (created Unpaid or Paid, Unpaid -> Paid, Paid -> Pending, Pending -> Issued)
\* or by the release Pending -> Paid of an issuance that failed before
\* returning; Pending is entered only from Paid and nothing leaves Issued.
C2_ForwardOrReleased ==
    [][\A q \in QuoteIds :
          mq'[q].state # mq[q].state =>
             \/ <<mq[q].state, mq'[q].state>> \in ForwardSteps
             \/ /\ mq[q].state = "Pending" /\ mq'[q].state = "Paid"
                /\ \E c \in Callers :
                      /\ mcall[c].pc = "pending"
                      /\ mcall'[c].result = "InternalError"]_vars

\* A quote was released by a failed issuance and issued by a later call.
C2_Witness ==
    \E c, d \in IssueCalls :
        /\ mcall[c].pc = "done" /\ mcall[d].pc = "done"
        /\ mcall[c].quotes = mcall[d].quotes
        /\ mcall[c].result = "InternalError"
        /\ mcall[d].result = "Ok"
        /\ mq[mcall[d].quotes[1]].state = "Issued"

\* The step in which batch call c returns an error.
BatchErrStep(c) ==
    /\ mcall[c].kind = "batch"
    /\ mcall[c].pc \in {"sent", "pending"}
    /\ mcall'[c].pc = "done"
    /\ mcall'[c].result # "Ok"

\* C3 as stated: after a batch error every quote of the batch that the mint
\* knows is Paid, its amount_issued is unchanged and no signature was issued.
C3_ErrorLeavesAllPaid ==
    [][\A c \in Callers :
          BatchErrStep(c) =>
             /\ mcall'[c].signatures = <<>>
             /\ \A q \in Range(mcall[c].quotes) :
                   mq[q].state # "Absent" =>
                      /\ mq'[q].state = "Paid"
                      /\ mq'[q].amount_issued = mq[q].amount_issued]_vars

\* C3: when a batch returns an error, no signature was issued and every quote
\* of the batch has the record it had when the batch was submitted: a refused
\* batch changes no record, a batch that failed after its quotes were marked
\* Pending puts each of them back to Paid with amount_issued unchanged.
C3_ErrorRestoresBatch ==
    [][\A c \in Callers :
          BatchErrStep(c) =>
             /\ mcall'[c].signatures = <<>>
             /\ \A q \in QuoteIds :
                   IF q \in Range(mcall[c].quotes) /\ mcall[c].pc = "pending"
                   THEN /\ mq[q].state = "Pending"
                        /\ mq'[q] = [mq[q] EXCEPT !.state = "Paid"]
                        /\ mq'[q].amount_issued = 0
                   ELSE mq'[q] = mq[q]]_vars

\* A batch of two paid quotes failed after both were marked Pending, and both
\* are Paid again with nothing issued.
C3_Witness ==
    \E c \in BatchCalls :
        /\ mcall[c].pc = "done"
        /\ mcall[c].result = "InternalError"
        /\ \A q \in QuoteIds : mq[q].state = "Paid" /\ mq[q].amount_issued = 0
        /\ \A q \in QuoteIds : issuedCount[q] = 0

\* C4: a batch moves its quotes together.  While a batch is in progress every
\* one of its quotes is Pending; the step that starts it takes all of them
\* from Paid to Pending, the step that ends it leaves all of them Issued or
\* all of them Paid, and a refused batch changes none.
C4_BatchMovesAsOne ==
    [][\A c \in BatchCalls :
          LET qs == Range(mcall[c].quotes) IN
          /\ (mcall[c].pc = "pending" => \A q \in qs : mq[q].state = "Pending")
          /\ (mcall[c].pc = "sent" /\ mcall'[c].pc = "pending" =>
                \A q \in qs : mq[q].state = "Paid" /\ mq'[q].state = "Pending")
          /\ (mcall[c].pc = "sent" /\ mcall'[c].pc = "done" => mq' = mq)
          /\ (mcall[c].pc = "pending" /\ mcall'[c].pc = "done" =>
                \/ \A q \in qs : mq'[q].state = "Issued"
                \/ \A q \in qs : mq'[q].state = "Paid")]_vars

\* A batch of two distinct quotes is in progress while another caller has
\* already looked at one of its quotes.
C4_Witness ==
    \E c \in BatchCalls, d \in IssueCalls :
        /\ mcall[c].pc = "pending"
        /\ Len(mcall[c].quotes) = 2
        /\ mcall[c].quotes[1] # mcall[c].quotes[2]
        /\ mcall[d].pc = "done"
        /\ mcall[d].seen = "Pending"

\* The signature rule of an issue request against the quote's lock.
Authorized(call) ==
    LET q == call.quotes[1] IN
    IF mq[q].pubkey # NoKey
    THEN call.sigs[1] # NoSig /\ Verify(call.sigs[1], mq[q].pubkey, q)
    ELSE call.sigs[1] = NoSig

\* C8: the mint starts issuing for a quote only when the request is
\* authorized: a locked quote with a signature that verifies against its
\* pubkey, an unlocked quote with no signature.  A request that is not
\* authorized is refused and changes no quote record.
C8_IssueOnlyAuthorized ==
    [][\A c \in IssueCalls :
          /\ (mcall[c].pc = "pending" => Authorized(mcall[c]))
          /\ (/\ mcall[c].pc = "sent" /\ mcall'[c].pc # "sent"
              /\ mq[mcall[c].quotes[1]].state # "Absent"
              /\ ~Authorized(mcall[c])
              => /\ mcall'[c].pc = "done"
                 /\ mcall'[c].result \notin {"Ok", "InternalError"}
                 /\ mcall'[c].signatures = <<>>
                 /\ mq' = mq)]_vars

\* A locked quote was refused for its signature and is still Paid, while
\* another locked quote was issued.
C8_Witness ==
    \E c, d \in IssueCalls :
        /\ mcall[c].pc = "done" /\ mcall[d].pc = "done"
        /\ mcall[c].result = "SignatureMissingOrInvalid"
        /\ mq[mcall[c].quotes[1]].state = "Paid"
        /\ mq[mcall[c].quotes[1]].pubkey # NoKey
        /\ mcall[d].result = "Ok"
        /\ mq[mcall[d].quotes[1]].pubkey # NoKey

\* The sum of the amounts of a list of outputs or signatures.
SumOfAmounts(xs) == SumSeq([i \in DOMAIN xs |-> xs[i].amount])

C11_BatchOkIssuesAll ==
    [][\A c \in BatchCalls :
          (mcall[c].pc # "done" /\ mcall'[c].pc = "done" /\ mcall'[c].result = "Ok") =>
             LET qs == mcall[c].quotes
                 total == SumSeq([i \in DOMAIN qs |-> mq[qs[i]].amount])
             IN
             /\ mcall[c].pc = "pending"
             /\ qs # <<>>
             /\ SumOfAmounts(mcall[c].outputs) = total
             /\ SumOfAmounts(mcall'[c].signatures) = total
             /\ \A i \in DOMAIN qs :
                   /\ mq[qs[i]].state = "Pending"
                   /\ mq'[qs[i]].state = "Issued"
                   /\ mq'[qs[i]].amount_issued = mq[qs[i]].amount
                   /\ mq'[qs[i]].amount = mq[qs[i]].amount]_vars

\* A batch over both quotes returned Ok: both are Issued in full, neither by
\* a single issue call, and the signatures sum to the two amounts.
C11_Witness ==
    \E c \in BatchCalls :
        /\ mcall[c].pc = "done"
        /\ mcall[c].result = "Ok"
        /\ SumOfAmounts(mcall[c].signatures) = mq["q1"].amount + mq["q2"].amount
        /\ \A q \in QuoteIds :
              /\ mq[q].state = "Issued"
              /\ mq[q].amount_issued = mq[q].amount
              /\ okCount[q] = 0
              /\ issuedCount[q] = 1

\* The states of a mining-share quote.
ShareStates == {"Paid", "Pending", "Issued"}

\* Every mining-share record of the mint and of the wallet store, and every
\* status response for a mining-share quote, has a state other than Unpaid.
ShareStatesOk ==
    /\ \A q \in QuoteIds :
          mq[q].method = "MiningShare" => mq[q].state \in ShareStates
    /\ \A k \in WalletIds :
          wq[k].method = "MiningShare" => wq[k].state \in ShareStates
    /\ \A t \in Tasks :
          (task[t].pc = "poll_store" /\ mq[task[t].quote].method = "MiningShare")
             => task[t].polled \in ShareStates

\* C12: a mining-share quote is never Unpaid: the mint's record and the
\* wallet's local record are Paid when they are created, and in every state
\* reached the mint's record, the wallet's record and every status response
\* on the wire have one of the states Paid, Pending, Issued.
C12_ShareQuoteNeverUnpaid ==
    [][/\ ShareStatesOk'
       /\ \A q \in QuoteIds :
             (mq[q].state = "Absent" /\ mq'[q].method = "MiningShare")
                => mq'[q].state = "Paid"
       /\ \A k \in WalletIds :
             (wq[k].state = "Absent" /\ wq'[k].method = "MiningShare")
                => wq'[k].state = "Paid"]_vars

\* The mint has issued a mining-share quote, the wallet's record of it was
\* polled to Issued, another status response is on its way, and the wallet
\* holds the quote of create_premint_secrets as well.
C12_Witness ==
    /\ \E q \in QuoteIds :
          /\ mq[q].method = "MiningShare"
          /\ mq[q].state = "Issued"
          /\ wq[q].method = "MiningShare"
          /\ wq[q].state = "Issued"
    /\ \E t \in Tasks : task[t].pc = "poll_store" /\ task[t].polled \in ShareStates
    /\ \E k \in WalletIds \ QuoteIds : wq[k].state = "Paid"

\* C13 as stated: every mining-share quote of the wallet store and of the
\* mint has an amount in 1..MaxShareAmount, and no quote of the wallet store
\* has the zero header hash.
C13_ShareQuotesInRange ==
    /\ \A k \in WalletIds :
          wq[k].method = "MiningShare" =>
             /\ wq[k].amount \in 1..MaxShareAmount
             /\ k # ZeroHash
    /\ \A q \in QuoteIds :
          mq[q].method = "MiningShare" => mq[q].amount \in 1..MaxShareAmount

\* The store, the counter and the histories of the wallet.
WalletStore == <<wq, wsecrets, counter, wproofs, incs, derivs>>

\* The amounts outside 1..MaxShareAmount among those drawn.
BadAmounts == {a \in ShareAmounts : a = 0 \/ a > MaxShareAmount}

\* C14: a step of mint_mining_share_quote called with amount 0 or with an
\* amount above MaxShareAmount ends the call with AmountOutofLimitRange (the
\* error carries the amount) and changes neither the counter nor the stored
\* quotes nor the stored premint secrets.
C14_OutOfRangeLeavesStore ==
    [][\A t \in Tasks, header_hash \in HeaderHashes, amount \in BadAmounts :
          MiningShareQuoteBegin(t, amount, header_hash) =>
             /\ task'[t].pc = "idle"
             /\ task'[t].result = "AmountOutofLimitRange"
             /\ task'[t].amount = amount
             /\ UNCHANGED WalletStore]_vars

\* After a quote was stored, one call with amount 0 and one with an amount
\* above MaxShareAmount were refused; the stored quote, its secrets and the
\* counter are still there.
C14_Witness ==
    /\ task["t1"].pc = "idle" /\ task["t2"].pc = "idle"
    /\ task["t1"].result = "AmountOutofLimitRange"
    /\ task["t2"].result = "AmountOutofLimitRange"
    /\ {task["t1"].amount, task["t2"].amount} = BadAmounts
    /\ counter[WalletActiveKeyset] # NoCounter
    /\ \E k \in WalletIds : wq[k].state = "Paid" /\ wsecrets[k] # NoPremint

\* The quotes the mint holds that are locked to one of the pubkeys.
LockedTo(pubkeys) ==
    {q \in QuoteIds : mq[q].state # "Absent" /\ mq[q].pubkey \in Range(pubkeys)}

\* The quotes a lookup request is to return: those locked to a requested
\* pubkey whose state the request's filter names, Paid when it names none.
ExpectedQuotes(pubkeys, field) ==
    {q \in LockedTo(pubkeys) :
        CASE field = Omitted -> mq[q].state = "Paid"
          [] field = FilterAll -> TRUE
          [] field = OnlyPaid -> mq[q].state = "Paid"
          [] field = OnlyUnpaid -> mq[q].state = "Unpaid"
          [] field = OnlyIssued -> mq[q].state = "Issued"
          [] field.kind = "Specific" -> mq[q].state = field.state}

\* The items are exactly the expected quotes, each once, each under the
\* pubkey it is locked to.
ItemsExact(pubkeys, field, items) ==
    /\ {items[i].quote : i \in DOMAIN items} = ExpectedQuotes(pubkeys, field)
    /\ \A i, j \in DOMAIN items : items[i].quote = items[j].quote => i = j
    /\ \A i \in DOMAIN items :
          /\ items[i].pubkey \in Range(pubkeys)
          /\ items[i].pubkey = mq[items[i].quote].pubkey

\* In this state every lookup request gets exactly the expected quotes.
LookupExact ==
    \A pubkeys \in PubkeyLists, field \in MintQuoteStateFilter \cup {Omitted} :
        \A order \in LookupOrders :
            ItemsExact(pubkeys, field,
                lookup_mint_quotes_by_pubkeys(pubkeys, DecodeFilter(field), order))

\* The response last served is exact for its request.
LookupResponseExact ==
    ItemsExact(lookupResp.pubkeys, lookupResp.state_filter, lookupResp.quotes)

\* C15: a lookup returns exactly the quotes locked to one of the requested
\* pubkeys whose state passes the filter (All: every state, OnlyPaid: Paid,
\* OnlyUnpaid: Unpaid, OnlyIssued: Issued, Specific(s): s; a request without
\* a filter: Paid), each once and under the pubkey it is locked to; this
\* holds of the lookup in every state and of every response the handler
\* serves.
C15_LookupExactlyMatching ==
    /\ []LookupExact
    /\ [][lookupResp' # lookupResp => LookupResponseExact']_vars

\* A request for both pubkeys without a filter was answered with the one
\* Paid quote, while the quote locked to the other pubkey is Issued.
C15_Witness ==
    /\ lookupResp.pubkeys = <<"P1", "P2">>
    /\ lookupResp.state_filter = Omitted
    /\ Len(lookupResp.quotes) = 1
    /\ mq[lookupResp.quotes[1].quote].state = "Paid"
    /\ \E q \in QuoteIds :
          /\ mq[q].state = "Issued"
          /\ mq[q].pubkey \in LockKeys
          /\ mq[q].pubkey # lookupResp.quotes[1].pubkey

\* The items of a lookup with filter All for one pubkey that name quote q.
ItemsFor(pubkey, q, order) ==
    SelectSeq(lookup_mint_quotes_by_pubkeys(<<pubkey>>, FilterAll, order),
              LAMBDA item : item.quote = q)

EmptyOrOversized(quotes) == quotes = <<>> \/ Len(quotes) > BatchLimit

\* The error the size checks name for a list.
SizeError(quotes) == IF quotes = <<>> THEN "BatchEmpty" ELSE "BatchSizeExceeded"

\* C17: an empty batch mint request is rejected with BatchEmpty and one of
\* more than 100 quotes with BatchSizeExceeded; the wallet's mint_batch
\* makes both checks before any quote is looked up, so a call with an empty
\* or oversized list returns that error, sends nothing and changes nothing.
C17_SizeChecksFirst ==
    [][/\ \A c \in Callers :
              (MintBatch(c) /\ EmptyOrOversized(mcall[c].quotes))
                  => /\ mcall'[c].result = SizeError(mcall[c].quotes)
                     /\ mq' = mq
       /\ \A t \in Tasks, quotes \in BatchLists :
              (WalletBatchSend(t, quotes) /\ EmptyOrOversized(quotes))
                  => /\ task'[t].pc = "idle"
                     /\ task'[t].result = SizeError(quotes)
                     /\ mcall' = mcall
                     /\ WalletStore' = WalletStore]_vars

\* What is mintable of a set of the wallet's quotes, each counted once.
RECURSIVE MintableOnce(_)
MintableOnce(S) ==
    IF S = {} THEN 0
    ELSE LET q == CHOOSE x \in S : TRUE
         IN amount_mintable(wq[q]) + MintableOnce(S \ {q})

\* C18: a batch mint request naming a quote id more than once is rejected
\* with BatchDuplicateQuote and changes no quote state; no batch request
\* counts a quote twice toward its total, and no quote is issued twice.
C18_DuplicateNeverCounted ==
    /\ [](\A q \in QuoteIds : issuedCount[q] <= 1)
    /\ [](\A t \in Tasks :
              task[t].pc = "batch_wait"
                  => SumSeq(task[t].premint.amounts)
                        = MintableOnce(Range(task[t].todo)))
    /\ [][\A c \in Callers :
              (/\ MintBatch(c)
               /\ Len(mcall[c].quotes) <= BatchLimit
               /\ has_duplicate_quotes(mcall[c].quotes))
                  => /\ mcall'[c].result = "BatchDuplicateQuote"
                     /\ mq' = mq]_vars

\* The mint's half of C18 alone.
MintRejectsDuplicates ==
    [][\A c \in Callers :
          (/\ MintBatch(c)
           /\ Len(mcall[c].quotes) <= BatchLimit
           /\ has_duplicate_quotes(mcall[c].quotes))
              => /\ mcall'[c].result = "BatchDuplicateQuote"
                 /\ mq' = mq]_vars

\* The error of a quote list that is refused for the list itself.
ListError(quotes) ==
    IF Len(quotes) = 0 THEN "BatchEmpty"
    ELSE IF Len(quotes) > BatchLimit THEN "BatchSizeExceeded"
    ELSE IF has_duplicate_quotes(quotes) THEN "BatchDuplicateQuote"
    ELSE "Ok"

\* A request whose signature array is present with another length than its
\* quote list.
CountMismatch(call) == call.sigPresent /\ Len(call.sigs) # Len(call.quotes)

\* C19: a batch mint request whose signature array is present but of another
\* length than its quote list is refused without a signature and without a
\* change to any quote record, so every Paid quote of it remains Paid; the
\* error is SignatureCountMismatch whenever the quote list itself is
\* acceptable (not empty, not oversized, without duplicates).
C19_SignatureCountMismatch ==
    [][\A c \in Callers :
          (MintBatch(c) /\ CountMismatch(mcall[c]))
              => /\ mcall'[c].pc = "done"
                 /\ mcall'[c].result =
                       (IF ListError(mcall[c].quotes) = "Ok"
                        THEN "SignatureCountMismatch"
                        ELSE ListError(mcall[c].quotes))
                 /\ mcall'[c].signatures = <<>>
                 /\ mq' = mq]_vars

\* A batch was refused with SignatureCountMismatch (two quotes, one
\* signature) while both quotes were Paid, and both are still Paid with
\* nothing issued.
C19_Witness ==
    \E c \in BatchCalls :
        /\ mcall[c].pc = "done"
        /\ mcall[c].result = "SignatureCountMismatch"
        /\ \A q \in QuoteIds :
              /\ mq[q].state = "Paid"
              /\ mq[q].amount_issued = 0
              /\ issuedCount[q] = 0

\* Every quote of the list is in the wallet's store, and two of them have
\* different payment methods.
MixedMethods(quotes) ==
    /\ \A i \in DOMAIN quotes : wq[quotes[i]].state # "Absent"
    /\ \E i, j \in DOMAIN quotes : wq[quotes[i]].method # wq[quotes[j]].method

\* C20: the wallet's mint_batch over quotes of different payment methods
\* fails with BatchPaymentMethodMismatch before any request is sent.
C20_MixedMethodsRefused ==
    [][\A t \in Tasks, quotes \in BatchLists :
          (WalletBatchSend(t, quotes) /\ MixedMethods(quotes))
              => /\ task'[t].pc = "idle"
                 /\ task'[t].result = "BatchPaymentMethodMismatch"
                 /\ mcall' = mcall
                 /\ WalletStore' = WalletStore]_vars

\* Every quote of the list is in the wallet's store with one payment method,
\* and two of them have different units.
MixedUnits(quotes) ==
    /\ \A i \in DOMAIN quotes : wq[quotes[i]].state # "Absent"
    /\ ~MixedMethods(quotes)
    /\ \E i, j \in DOMAIN quotes : wq[quotes[i]].unit # wq[quotes[j]].unit

\* C21: the wallet's mint_batch over quotes that do not all have the same
\* unit fails with BatchCurrencyUnitMismatch before any request is sent.
C21_MixedUnitsRefused ==
    [][\A t \in Tasks, quotes \in BatchLists :
          (WalletBatchSend(t, quotes) /\ MixedUnits(quotes))
              => /\ task'[t].pc = "idle"
                 /\ task'[t].result = "BatchCurrencyUnitMismatch"
                 /\ mcall' = mcall
                 /\ WalletStore' = WalletStore]_vars

\* Every quote of the list is in the store with one method and one unit, and
\* one of them is not Paid.
SomeNotPaid(quotes) ==
    /\ quotes # <<>>
    /\ \A i \in DOMAIN quotes : wq[quotes[i]].state # "Absent"
    /\ ~MixedMethods(quotes)
    /\ ~MixedUnits(quotes)
    /\ \E i \in DOMAIN quotes : wq[quotes[i]].state # "Paid"

\* C22: the wallet's mint_batch over quotes of which one is not Paid, all
\* other checks passing, fails with UnpaidQuote and redeems no quote.
C22_NotPaidRefused ==
    [][\A t \in Tasks, quotes \in BatchLists :
          (WalletBatchSend(t, quotes) /\ SomeNotPaid(quotes))
              => /\ task'[t].pc = "idle"
                 /\ task'[t].result = "UnpaidQuote"
                 /\ mcall' = mcall
                 /\ WalletStore' = WalletStore]_vars

\* A quote id of the list is absent from the wallet's store.
SomeAbsent(quotes) ==
    \E i \in DOMAIN quotes : wq[quotes[i]].state = "Absent"

\* The validation failures of mint_batch: an empty list, an unknown quote,
\* mixed methods, mixed units, a quote that is not Paid, a zero total.
ValidationFails(quotes) ==
    \/ quotes = <<>>
    \/ SomeAbsent(quotes)
    \/ Cardinality({wq[quotes[i]].method : i \in DOMAIN quotes}) > 1
    \/ Cardinality({wq[quotes[i]].unit : i \in DOMAIN quotes}) > 1
    \/ \E i \in DOMAIN quotes : wq[quotes[i]].state # "Paid"
    \/ SumSeq([i \in DOMAIN quotes |-> amount_mintable(wq[quotes[i]])]) = 0

TokensReturn(t) ==
    /\ task[t].op = "mint_tokens_for_pubkey"
    /\ task'[t].pc = "idle"

\* C24: in mint_tokens_for_pubkey a failure while processing one quote is
\* skipped: the call returns only after the last quote of the lookup
\* response and returns Ok, and only MiningShare quotes are redeemed.
C24_PerQuoteFailureSkipped ==
    /\ [][\A t \in Tasks :
              TokensReturn(t)
                  => /\ task'[t].result = "Ok"
                     /\ Len(task[t].todo) <= 1]_vars
    /\ [](\A t \in Tasks :
              (task[t].op = "mint_tokens_for_pubkey" /\ mcall[t].pc # "idle")
                  => \A q \in Range(mcall[t].quotes) : mq[q].method = "MiningShare")

\* The part of C24 the code keeps: a refusal of the mint is skipped, and only
\* MiningShare quotes are redeemed.
MintRefusalSkipped ==
    /\ [][\A t \in Tasks :
              (TokensReturn(t) /\ task[t].pc = "tokens_wait")
                  => /\ task'[t].result = "Ok"
                     /\ Len(task[t].todo) <= 1]_vars
    /\ [][\A t \in Tasks :
              (task[t].pc = "tokens_wait" /\ task'[t].pc # "tokens_wait"
                  /\ Len(task[t].todo) > 1)
                  => task'[t].pc = "tokens_derive"]_vars
    /\ [](\A t \in Tasks :
              (task[t].op = "mint_tokens_for_pubkey" /\ mcall[t].pc # "idle")
                  => \A q \in Range(mcall[t].quotes) : mq[q].method = "MiningShare")

\* The quote was redeemed: the mint issued it and has it Issued.
Redeemed(q) == mq[q].state = "Issued" /\ issuedCount[q] >= 1

\* C25: redeeming a redeemed quote again is an idempotent no-op.  A second
\* mint_mining_share for the quote is answered QuoteAlreadyIssued by the
\* mint and stores no new proofs, and a mint_tokens_for_pubkey started after
\* the redemption returns Ok without a request for that quote.
C25_SecondRedeemIsNoOp ==
    /\ [][\A t \in Tasks, q \in QuoteIds :
              (MintMiningShareSend(t, q) /\ Redeemed(q))
                  => /\ mcall'[t].pc = "sent"
                     /\ WalletStore' = WalletStore]_vars
    /\ [][\A t \in Tasks :
              (MintMiningShareReceive(t) /\ Redeemed(task[t].quote)
                  /\ mcall[t].seen = "Issued")
                  => /\ mcall[t].result = "QuoteAlreadyIssued"
                     /\ wproofs' = wproofs]_vars
    /\ [][\A t \in Tasks, key \in {NoKey, "sk1"} :
              TokensLookup(t, "P1", key)
                  => \A q \in Range(task'[t].todo) : ~Redeemed(q)]_vars

\* The wallet reads the response of a redemption request.
ResponseRead(t) ==
    /\ task[t].pc \in {"mint_wait", "proofs_wait", "batch_wait", "share_wait",
                       "tokens_wait"}
    /\ task'[t].pc # task[t].pc
    /\ mcall[t].result = "Ok"

\* C26: in every redemption path of the wallet each returned blind signature
\* is DLEQ-checked before proofs are built: with every result Valid or
\* MissingProof the proofs are stored, and with an Invalid result on any
\* signature the operation fails and stores no proof of that response.
C26_DleqCheckedEverywhere ==
    [][\A t \in Tasks :
          ResponseRead(t) =>
             IF \E i \in DOMAIN mcall[t].signatures :
                   mcall[t].signatures[i].dleq = "Invalid"
             THEN /\ task'[t].pc = "idle"
                  /\ task'[t].result # "Ok"
                  /\ wproofs' = wproofs
             ELSE construct_proofs(task[t].premint, mcall[t].signatures)
                     \subseteq wproofs']_vars

\* The part of C26 the code keeps: mint_batch, mint and
\* get_mining_share_proofs refuse a response with an Invalid result.
DleqCheckedOutsideShares ==
    [][\A t \in Tasks :
          (ResponseRead(t) /\ task[t].pc \in {"mint_wait", "proofs_wait", "batch_wait"})
             => IF \E i \in DOMAIN mcall[t].signatures :
                      mcall[t].signatures[i].dleq = "Invalid"
                THEN /\ task'[t].pc = "idle"
                     /\ task'[t].result = "CouldNotVerifyDleq"
                     /\ wproofs' = wproofs
                ELSE construct_proofs(task[t].premint, mcall[t].signatures)
                        \subseteq wproofs']_vars

\* The keysets the selection is among: active and of the wallet's unit.
Candidates == {k \in wkeysets : k.active /\ k.unit = WalletUnit}

\* The candidates with the lowest fee.
Cheapest == {k \in Candidates : \A j \in Candidates : k.input_fee_ppk <= j.input_fee_ppk}

\* The order of keyset ids.
IdBefore(a, b) == a = b \/ (a = "ks1" /\ b = "ks2")

\* C27: the active-keyset selection returns, among the active keysets of the
\* wallet's unit, one with the lowest fee, and among equal fees the one with
\* the least id whatever the storage order; NoActiveKeyset when there is none.
C27_LowestFeeThenId ==
    [][\A order \in KeysetOrders :
          get_active_mint_keyset(order)
              => IF Candidates = {} THEN active' = "NoActiveKeyset"
                 ELSE \E k \in Cheapest :
                        /\ active' = k.id
                        /\ \A j \in Cheapest : IdBefore(k.id, j.id)]_vars

\* The part of C27 the code keeps: a keyset of the lowest fee among the
\* candidates, NoActiveKeyset without candidates, and the only keyset of a
\* store that add_keyset(keys, true, fee) filled.
LowestFeeSelected ==
    [][\A order \in KeysetOrders :
          get_active_mint_keyset(order)
              => IF Candidates = {} THEN active' = "NoActiveKeyset"
                 ELSE \E k \in Cheapest : active' = k.id]_vars

\* create_premint_secrets has stored secrets for quote id q: the secrets
\* under q are those of one of its derivations.
PremintUsed(q) ==
    /\ wsecrets[q] # NoPremint
    /\ \E i \in 1..Len(derivs) :
          derivs[i] = DerivEntry("create_premint_secrets", wsecrets[q])

\* C28: a second create_premint_secrets with a quote id that an earlier
\* successful call used returns PaidQuote and changes nothing: the stored
\* quote, the stored secrets and the keyset counter stay as they are.
C28_SecondPremintRefused ==
    [][\A t \in Tasks, q \in QuoteIds : \A amount \in {0, AmountOf(q)} :
          PremintCheck(t, amount, q) /\ PremintUsed(q) =>
              /\ task'[t].result = "PaidQuote"
              /\ task'[t].pc = "idle"
              /\ UNCHANGED <<wq, wsecrets, counter>>]_vars

\* The part of C28 the code keeps: when the store holds a quote under the
\* quote id itself, the call returns PaidQuote and changes nothing.
PaidQuoteChangesNothing ==
    [][\A t \in Tasks, q \in QuoteIds : \A amount \in {0, AmountOf(q)} :
          PremintCheck(t, amount, q) /\ wq[q].state # "Absent" =>
              /\ task'[t].result = "PaidQuote"
              /\ task'[t].pc = "idle"
              /\ UNCHANGED <<wq, wsecrets, counter>>]_vars

\* The result of the i-th check of the issue pipeline, taken by itself.
CheckResult(i, quote, outputs, sig) ==
    LET q == mq[quote] IN
    CASE i = 1 -> IF q.state = "Absent" THEN "UnknownQuote" ELSE "Ok"
      [] i = 2 -> ExpiryCheck(q.expiry)
      [] i = 3 -> StateCheck(q.state)
      [] i = 4 -> SignatureCheck(quote, q.pubkey, sig)
      [] i = 5 -> KeysetCheck(q, outputs)
      [] i = 6 -> AmountCheck(q.amount, outputs)
      [] i = 7 -> DenominationCheck(outputs)
      [] i = 8 -> OutputCountCheck(outputs)

\* The errors of the failure taxonomy, by the check that raises them.
ErrorsOf(i) ==
    CASE i = 1 -> {"UnknownQuote"}
      [] i = 2 -> {"QuoteExpired"}
      [] i = 3 -> {"UnpaidQuote", "QuoteAlreadyIssued"}
      [] i = 4 -> {"SignatureMissingOrInvalid"}
      [] i = 5 -> {"UnknownKeyset", "KeysetMismatch"}
      [] i = 6 -> {"AmountMismatch"}
      [] i = 7 -> {"InvalidAmountDenomination"}
      [] i = 8 -> {"OutputCountExceeded"}

\* The checks a request violates, each taken by itself.
Violated(quote, outputs, sig) ==
    {i \in 1..8 : CheckResult(i, quote, outputs, sig) # "Ok"}

Earliest(checks) == CHOOSE i \in checks : \A j \in checks : i <= j

\* C29: an issue request that violates one or more checks returns the error
\* of the earliest check it violates, in the order exists, not expired,
\* Paid, signature, keyset, sum, denominations, output count; the checks
\* have errors of their own, and a refused request changes no mint state.
C29_EarliestCheckWins ==
    /\ [](\A i, j \in 1..8 : i # j => ErrorsOf(i) \cap ErrorsOf(j) = {})
    /\ [][\A c \in Callers :
            MintIssue(c) =>
                LET quote == mcall[c].quotes[1]
                    broken == Violated(quote, mcall[c].outputs, mcall[c].sigs[1])
                IN
                broken # {} =>
                    /\ mcall'[c].pc = "done"
                    /\ mcall'[c].result \in ErrorsOf(Earliest(broken))
                    /\ mcall'[c].signatures = <<>>
                    /\ UNCHANGED <<mq, okCount, issuedCount, index>>]_vars

\* An expired quote that was never paid was refused as expired.
C29_Witness ==
    \E c \in Callers :
        /\ mcall[c].pc = "done"
        /\ mcall[c].kind = "issue"
        /\ mcall[c].result = "QuoteExpired"
        /\ mcall[c].seen = "Unpaid"
        /\ mq[mcall[c].quotes[1]].state = "Unpaid"

\* C30: an issuance that fails after the quote was marked Pending and
\* before signatures are returned leaves the quote Paid when the call
\* returns, with amount_issued and every other field as before, returns no
\* signature and counts as no issuance, and the request that failed
\* passes the pipeline again.
C30_FailedIssueReleasesQuote ==
    [][\A c \in Callers :
          MintIssueFail(c) =>
              \E quote \in {mcall[c].quotes[1]}, outputs \in {mcall[c].outputs},
                 sig \in {mcall[c].sigs[1]} :
                  /\ mq[quote].state = "Pending"
                  /\ mq'[quote] = [mq[quote] EXCEPT !.state = "Paid"]
                  /\ mq'[quote].amount_issued = 0
                  /\ mcall'[c].pc = "done"
                  /\ mcall'[c].result # "Ok"
                  /\ mcall'[c].signatures = <<>>
                  /\ okCount'[quote] = okCount[quote]
                  /\ issuedCount'[quote] = issuedCount[quote]
                  /\ (IssueValidate(quote, outputs, sig) = "Ok")']_vars

\* One call on a quote failed after Pending and another call on the same
\* quote returned Ok: the quote is Issued once.
C30_Witness ==
    \E c, d \in Callers :
        /\ mcall[c].pc = "done" /\ mcall[c].kind = "issue"
        /\ mcall[c].result = "InternalError"
        /\ mcall[d].pc = "done" /\ mcall[d].kind = "issue"
        /\ mcall[d].result = "Ok"
        /\ mcall[d].quotes = mcall[c].quotes
        /\ mq[mcall[c].quotes[1]].state = "Issued"
        /\ okCount[mcall[c].quotes[1]] = 1

\* C31: no quote stays Pending forever: every quote that enters Pending
\* eventually becomes Issued or returns to Paid, and a step from Pending to
\* Paid is taken only by a quote no signature was persisted for.
C31_PendingEnds ==
    /\ \A q \in QuoteIds :
          (mq[q].state = "Pending") ~> (mq[q].state \in {"Issued", "Paid"})
    /\ [][\A q \in QuoteIds :
            mq[q].state = "Pending" /\ mq'[q].state = "Paid" =>
                /\ mq[q].amount_issued = 0
                /\ okCount[q] = 0
                /\ issuedCount[q] = 0]_vars

\* A call was lost mid-issuance and its quote, left Pending by the crash,
\* is Paid again.
C31_Witness ==
    \E c \in Callers :
        /\ mcall[c].pc = "done"
        /\ mcall[c].kind = "issue"
        /\ mcall[c].result = "Cancelled"
        /\ mq[mcall[c].quotes[1]].state = "Paid"

\* check_all_mint_quotes removes the quote it has just polled.
RemovedByCheck(t) ==
    /\ wq[task[t].quote].state # "Absent"
    /\ wq'[task[t].quote].state = "Absent"

\* C32: a quote whose expiry is 0 is never treated as expired, and a quote
\* with nonzero expiry exactly when the time has reached its expiry:
\* check_all_mint_quotes removes a quote because of expiry only when its
\* expiry is nonzero and at or before the time read.
C32_ZeroExpiryNeverExpires ==
    [][\A t \in Tasks, now \in WalletTimes :
          CheckAllStore(t, now) /\ RemovedByCheck(t) =>
              /\ Head(task[t].todo).expiry # 0
              /\ Head(task[t].todo).expiry <= now]_vars

\* The part of C32 the code keeps: a quote with nonzero expiry that the mint
\* does not report Paid is removed exactly when the time read has reached
\* its expiry, and a quote the mint reports Paid is never removed for expiry.
NonzeroExpiryExact ==
    [][\A t \in Tasks, now \in WalletTimes :
          CheckAllStore(t, now) /\ wq[task[t].quote].state # "Absent"
                /\ Head(task[t].todo).expiry # 0 =>
              (RemovedByCheck(t) <=>
                  (task[t].polled # "Paid" /\ Head(task[t].todo).expiry <= now))]_vars

\* A step in which a redemption of one quote by task t returns Ok.
RedeemedOk(t, ops) ==
    /\ task[t].op \in ops
    /\ task[t].pc # "idle"
    /\ task'[t].pc = "idle"
    /\ task'[t].result = "Ok"

\* C33: after a successful wallet redemption of a quote neither the quote
\* nor its premint secrets remain in the wallet store.
C33_RedeemedLeavesNothing ==
    [][\A t \in Tasks :
          RedeemedOk(t, {"mint", "mint_mining_share", "get_mining_share_proofs"}) =>
              /\ wq'[task[t].quote].state = "Absent"
              /\ wsecrets'[task[t].quote] = NoPremint]_vars

\* The part of C33 the code keeps: mint and get_mining_share_proofs remove
\* the quote, mint_mining_share removes the secrets.
RedeemedRemovesItsPart ==
    [][\A t \in Tasks :
          /\ RedeemedOk(t, {"mint", "get_mining_share_proofs"}) =>
                wq'[task[t].quote].state = "Absent"
          /\ RedeemedOk(t, {"mint_mining_share"}) =>
                wsecrets'[task[t].quote] = NoPremint]_vars

\* C34: mint_mining_share_quote persists the quote and its premint secrets
\* atomically: once its calls have returned, with or without an error, the
\* store holds a quote under an id exactly when it holds secrets under it.
C34_QuoteIffSecrets ==
    (\A t \in Tasks : task[t].pc = "idle") =>
        \A k \in WalletIds :
            (wq[k].state # "Absent") <=> (wsecrets[k] # NoPremint)

\* The part of C34 the code keeps: a call that returns Ok has stored the
\* quote with its amount and unit and the secrets it derived for the
\* active keyset under the same id.
StoredTogetherOnOk ==
    [][\A t \in Tasks :
          MiningShareQuoteStore(t) =>
              /\ task'[t].result = "Ok"
              /\ wq'[task[t].quote] = MiningShareQuote(task[t].amount)
              /\ wq'[task[t].quote].unit = WalletUnit
              /\ wsecrets'[task[t].quote] = task[t].premint
              /\ task[t].premint.keyset_id = WalletActiveKeyset
              /\ SumSeq(task[t].premint.amounts) = task[t].amount]_vars

\* The Transaction record of the proofs task t constructs.
RecordOf(t) ==
    [direction |-> "Incoming",
     amount |-> SumSeq([i \in DOMAIN task[t].premint.amounts |->
                           task[t].premint.amounts[i]])]

\* A step in which an operation of task t returns an error.
ReturnedError(t) ==
    /\ task[t].pc # "idle"
    /\ task'[t].pc = "idle"
    /\ task'[t].result # "Ok"

\* C35: every successful wallet redemption stores the constructed proofs and
\* appends exactly one incoming transaction record whose amount is the total
\* of those proofs; a failed redemption appends no record.
C35_RedemptionRecordsTransaction ==
    [][\A t \in Tasks :
          /\ RedeemedOk(t, {"mint", "mint_batch", "mint_mining_share"}) =>
                /\ wproofs' = wproofs \cup
                       construct_proofs(task[t].premint, mcall[t].signatures)
                /\ transactions' = Append(transactions, RecordOf(t))
          /\ ReturnedError(t) => transactions' = transactions]_vars

\* The part of C35 the code keeps: mint and mint_batch append the record of
\* the proofs they store, mint_mining_share stores its proofs, and no other
\* step adds a record.
MintAndBatchRecord ==
    [][/\ \A t \in Tasks :
            /\ RedeemedOk(t, {"mint", "mint_batch"}) =>
                  transactions' = Append(transactions, RecordOf(t))
            /\ RedeemedOk(t, {"mint", "mint_batch", "mint_mining_share"}) =>
                  wproofs' = wproofs \cup
                     construct_proofs(task[t].premint, mcall[t].signatures)
       /\ transactions' # transactions =>
            \E t \in Tasks : RedeemedOk(t, {"mint", "mint_batch"})]_vars

\* C36: polling a quote's state makes the wallet's record agree with the
\* mint's answer: an existing record takes the polled state and keeps its
\* other fields, and a record is created when the wallet has none.
C36_PollMakesRecordAgree ==
    [][\A t \in Tasks :
          PollStore(t) =>
              /\ wq'[task[t].quote].state = task[t].polled
              /\ wq[task[t].quote].state # "Absent" =>
                    wq'[task[t].quote] =
                        [wq[task[t].quote] EXCEPT !.state = task[t].polled]]_vars

\* The part of C36 the code keeps: an existing record takes the polled state
\* and nothing else changes; a quote the wallet does not have stays absent.
PollUpdatesExistingOnly ==
    [][\A t \in Tasks :
          PollStore(t) =>
              /\ \A k \in WalletIds \ {task[t].quote} : wq'[k] = wq[k]
              /\ IF wq[task[t].quote].state = "Absent"
                 THEN wq'[task[t].quote] = NoQuote
                 ELSE wq'[task[t].quote] =
                        [wq[task[t].quote] EXCEPT !.state = task[t].polled]]_vars

\* A step in which task t posts an issue request for quote q.
Submits(t, q) ==
    /\ mcall[t].pc # "sent"
    /\ mcall'[t].pc = "sent"
    /\ mcall'[t].kind = "issue"
    /\ mcall'[t].quotes = <<q>>

\* The secrets the wallet stored for q, if any, are of the keyset the mint
\* recorded for q: wallet and mint created the quote under one keyset.
CreatedUnderOneKeyset(q) ==
    /\ mq[q].method = "MiningShare"
    /\ wsecrets[q] # NoPremint => wsecrets[q].keyset_id = mq[q].keyset_id

\* All outputs or signatures of a sequence carry keyset id.
AllOfKeyset(xs, id) == \A i \in DOMAIN xs : xs[i].keyset_id = id

\* The keyset_id of a mining-share quote stays, and the signatures the mint
\* returns for the quote carry it.
KeysetKeptAndSigned ==
    /\ \A q \in QuoteIds :
          mq[q].method = "MiningShare" /\ mq'[q].state # "Absent" =>
              mq'[q].keyset_id = mq[q].keyset_id
    /\ \A c \in Callers, q \in QuoteIds :
          /\ mcall[c].pc = "pending"
          /\ mcall[c].quotes = <<q>>
          /\ mq[q].method = "MiningShare"
          /\ mcall'[c].pc = "done"
          => AllOfKeyset(mcall'[c].signatures, mq[q].keyset_id)

\* C37: a mining-share quote's keyset_id never changes after creation, and
\* every blinded message the wallet submits for the quote and every blind
\* signature the mint returns for it carries that keyset_id, also when the
\* active keyset changes between creation and redemption.
C37_QuoteKeysetCarried ==
    [][/\ KeysetKeptAndSigned
       /\ \A t \in Tasks, q \in QuoteIds :
             Submits(t, q) /\ CreatedUnderOneKeyset(q) =>
                 AllOfKeyset(mcall'[t].outputs, mq[q].keyset_id)]_vars

\* The part of C37 the code keeps: the keyset_id stays, the signatures carry
\* it, and mint_mining_share, get_mining_share_proofs and
\* mint_tokens_for_pubkey submit outputs of the quote's keyset.
StoredSecretsCarryKeyset ==
    [][/\ KeysetKeptAndSigned
       /\ \A t \in Tasks, q \in QuoteIds :
             /\ Submits(t, q)
             /\ CreatedUnderOneKeyset(q)
             /\ task'[t].op # "mint"
             => AllOfKeyset(mcall'[t].outputs, mq[q].keyset_id)]_vars

\* The exact sum of the amounts of a list of records, and of the mintable
\* amounts of a list of quotes.
ExactTotal(t) ==
    IF task'[t].op = "total_amount"
    THEN SumSeq([i \in DOMAIN mcall["c1"].outputs |-> mcall["c1"].outputs[i].amount])
    ELSE SumSeq([i \in DOMAIN task'[t].todo |->
                    amount_mintable(wq[task'[t].todo[i]])])

\* A step in which task t computes a total.
Summed(t) == task[t].pc = "idle" /\ task'[t].pc = "summed"

\* C38: summing amounts never wraps: total_amount and the batch total of
\* the wallet return the exact sum when it fits in an Amount and the
\* AmountOverflow error otherwise.
C38_SumsNeverWrap ==
    [][\A t \in Tasks :
          Summed(t) =>
              IF ExactTotal(t) < AmountLimit
              THEN task'[t].result = "Ok" /\ task'[t].amount = ExactTotal(t)
              ELSE task'[t].result = "AmountOverflow"]_vars

\* The part of C38 the code keeps: total_amount is exact or AmountOverflow,
\* and the batch total is exact whenever the sum fits.
TotalAmountNeverWraps ==
    [][\A t \in Tasks :
          Summed(t) =>
              IF ExactTotal(t) < AmountLimit
              THEN task'[t].result = "Ok" /\ task'[t].amount = ExactTotal(t)
              ELSE IF task'[t].op = "total_amount"
                   THEN task'[t].result = "AmountOverflow"
                   ELSE \/ task'[t].result = "panic"
                        \/ /\ task'[t].result = "Ok"
                           /\ task'[t].amount = ExactTotal(t) % AmountLimit]_vars

\* A step in which one of the operations ops derives secrets from the
\* counter of a keyset: the derivation it adds to the history.
Derives(ops) ==
    /\ Len(derivs') = Len(derivs) + 1
    /\ derivs'[Len(derivs')].op \in ops

\* A step in which task t posts the request of mint_batch with spending
\* conditions.
PostsWithConditions(t) ==
    /\ task[t].pc = "idle"
    /\ task'[t].pc = "batch_wait"
    /\ task'[t].premint.count < 0

\* C39: mint_mining_share_quote, mint_tokens_for_pubkey and mint_batch
\* reserve as many counter values as they derive secrets, one per
\* denomination of the split amount, and derive from the first reserved
\* value new_counter - n, which is never below zero; mint_batch with spending
\* conditions leaves the counter alone and derives nothing from it.
C39_ReservedEqualsDerived ==
    [][/\ Derives({"mint_mining_share_quote", "mint_tokens_for_pubkey", "mint_batch"}) =>
             LET d == derivs'[Len(derivs')]
                 new_counter == counter'[d.keyset]
             IN /\ new_counter - CountOrZero(counter[d.keyset]) = d.n
                /\ d.count = new_counter - d.n
                /\ d.count = CountOrZero(counter[d.keyset])
                /\ d.count >= 0
                /\ \E t \in Tasks :
                      /\ task'[t].premint.count = d.count
                      /\ d.n = Len(Split(SumSeq(task'[t].premint.amounts)))
                /\ \A ks \in KeysetIds \ {d.keyset} : counter'[ks] = counter[ks]
       /\ \A t \in Tasks :
             PostsWithConditions(t) => counter' = counter /\ derivs' = derivs]_vars

\* One of the operations has reserved a range of more than one value,
\* another of them the range that follows it, and a mint_batch with spending
\* conditions has posted its request.
C39_Witness ==
    /\ \E i, j \in DOMAIN derivs :
          /\ derivs[i].op \in {"mint_mining_share_quote", "mint_tokens_for_pubkey"}
          /\ derivs[i].n > 1
          /\ derivs[j].op \in {"mint_mining_share_quote", "mint_tokens_for_pubkey"}
          /\ derivs[j].op # derivs[i].op
          /\ derivs[j].count = derivs[i].count + derivs[i].n
    /\ \E t \in Tasks : task[t].pc = "batch_wait" /\ task[t].premint.count < 0

\* C40: a BatchMintRequest encoded to JSON and decoded again is the request
\* that was encoded: the quote ids in their order, an absent signature field
\* absent, a present signature array with its length and with every null
\* and every signature at its position, also when all entries are null and
\* when the array and the quote list differ in length.
C40_JsonRoundTrip ==
    [][\A c \in Clients :
          JsonDecode(c) =>
              LET built == mcall[c].built
                  decoded == mcall'[c]
              IN /\ decoded = built
                 /\ decoded.quotes = built.quotes
                 /\ decoded.sigPresent = built.sigPresent
                 /\ Len(decoded.sigs) = Len(built.sigs)
                 /\ \A i \in DOMAIN built.sigs :
                       /\ (decoded.sigs[i] = NoSig) = (built.sigs[i] = NoSig)
                       /\ decoded.sigs[i] = built.sigs[i]]_vars

\* A request has come back from the wire whose signature array is longer
\* than its quote list and holds a null before a signature.
C40_Witness ==
    /\ mcall["c1"].pc = "sent"
    /\ mcall["c1"].sigPresent
    /\ Len(mcall["c1"].sigs) > Len(mcall["c1"].quotes)
    /\ Len(mcall["c1"].quotes) = 2
    /\ mcall["c1"].quotes[1] # mcall["c1"].quotes[2]
    /\ mcall["c1"].sigs[1] = NoSig
    /\ mcall["c1"].sigs[2] # NoSig

\* Requests whose signature array is all null, and requests without the
\* field, have come back from the wire as they were.
AllNullAndAbsentDecoded ==
    /\ mcall["c1"].pc = "sent"
    /\ mcall["c1"].quotes # <<>>
    /\ \/ ~mcall["c1"].sigPresent
       \/ /\ Len(mcall["c1"].sigs) = 2
          /\ \A i \in DOMAIN mcall["c1"].sigs : mcall["c1"].sigs[i] = NoSig

\* The increments of one keyset, in the order the store served them.
IncsOf(ks) == SelectSeq(incs, LAMBDA e : e.keyset = ks)

\* C5: the ranges [new_counter - n, new_counter) that the calls of
\* increment_keyset_counter on one keyset give their callers are pairwise
\* disjoint, and together they cover the interval from the counter's initial
\* value 0 to its current value without a gap.
C5_RangesDisjointContiguous ==
    \A ks \in KeysetIds :
        LET rs == IncsOf(ks) IN
        /\ \A i \in DOMAIN rs :
              /\ rs[i].lo <= rs[i].hi
              /\ rs[i].lo = (IF i = 1 THEN 0 ELSE rs[i - 1].hi)
        /\ \A i, j \in DOMAIN rs :
              i < j => rs[i].hi <= rs[j].lo
        /\ counter[ks] = (IF rs = <<>> THEN NoCounter ELSE rs[Len(rs)].hi)

\* Two mint_mining_share_quote operations run at once, each between its
\* increment and its store, and hold different ranges.
C5_Witness ==
    /\ \A t \in Tasks : task[t].pc = "quote_store"
    /\ task["t1"].count # task["t2"].count
    /\ Len(IncsOf(WalletActiveKeyset)) >= 2
    /\ task["t1"].premint.amounts # task["t2"].premint.amounts

\* No counter value of a keyset was used by two derivations.
NoCounterReuse ==
    \A i, j \in DOMAIN derivs :
        (i < j /\ derivs[i].keyset = derivs[j].keyset) =>
           \/ derivs[i].count + derivs[i].n <= derivs[j].count
           \/ derivs[j].count + derivs[j].n <= derivs[i].count

\* C6 as stated: no counter value of a keyset is used for two secret
\* derivations, and the stored counter never decreases.
C6_CounterValuesUsedOnce ==
    [][/\ NoCounterReuse'
       /\ \A ks \in KeysetIds : counter'[ks] >= counter[ks]]_vars

\* C7: every quote record of the mint and of the wallet store has
\* amount_issued <= amount_paid <= amount.
C7_AmountsOrdered ==
    /\ \A q \in QuoteIds :
          /\ mq[q].amount_issued <= mq[q].amount_paid
          /\ mq[q].amount_paid <= mq[q].amount
    /\ \A k \in WalletIds :
          /\ wq[k].amount_issued <= wq[k].amount_paid
          /\ wq[k].amount_paid <= wq[k].amount

\* The mint has issued a quote in full while the wallet holds the local
\* quotes of mint_mining_share_quote and of create_premint_secrets.
C7_Witness ==
    /\ \E q \in QuoteIds :
          mq[q].state = "Issued" /\ mq[q].amount_issued = mq[q].amount
                                /\ mq[q].amount > 1
    /\ \E k \in QuoteIds :
          wq[k].state = "Paid" /\ wq[k].amount_paid = wq[k].amount /\ wq[k].amount > 0
    /\ \E k \in WalletIds \ QuoteIds : wq[k].state = "Paid"

\* The operations that ask the mint to issue for a mining-share quote.
ShareIssueOps ==
    {"mint_mining_share", "get_mining_share_proofs", "mint_tokens_for_pubkey"}

\* C9 as stated: every issue request the wallet has sent for a mining-share
\* quote carries a NUT-20 signature over that quote.
C9_ShareRequestsSigned ==
    \A t \in Tasks :
        (/\ task[t].op \in ShareIssueOps
         /\ mcall[t].pc = "sent"
         /\ mcall[t].kind = "issue")
        => /\ mcall[t].sigPresent
           /\ mcall[t].sigs[1].signer \in SecretKeys
           /\ mcall[t].sigs[1].quote = mcall[t].quotes[1]

TypeOK ==
    /\ \A q \in QuoteIds : mq[q].state \in QuoteState \cup {"Absent"}
    /\ \A c \in Callers : mcall[c].pc \in {"idle", "sent", "pending", "done"}
    /\ \A k \in WalletIds : wq[k].state \in QuoteState \cup {"Absent"}
    /\ \A ks \in KeysetIds : counter[ks] \in Int /\ counter[ks] >= NoCounter
    /\ nops \in 0..MaxOps
    /\ \A t \in Tasks : task[t].pc = "idle" <=> task[t].op = "none"

====
